---------------------------- MODULE Spec2Model ----------------------------
(***************************************************************************)
(* authkit-cli: the migration engine.                                      *)
(*                                                                         *)
(* SQL text is modelled as a sequence of tokens: the statement terminator, *)
(* the newline, the carriage return, a run of blanks, the line-comment     *)
(* marker and opaque words (a run of text that holds none of the former).  *)
(* The splitter works on these tokens exactly as the code works on         *)
(* characters.                                                             *)
(***************************************************************************)
EXTENDS Integers, Sequences, FiniteSets, TLC

(***************************************************************************)
(* Tokens of SQL text                                                      *)
(***************************************************************************)
SEMI == ";"
NL == "NL"
CR == "CR"
SP == "SP"
DD == "--"
Whitespace == {NL, CR, SP}

\* A full-line comment "-- w" followed by its line break.
Cmt(w) == <<DD, w, NL>>
\* A multi-line CREATE TABLE: head line, indented column list, closing line.
Tbl(head, cols) == <<head, NL, SP, cols, NL, ")", SEMI, NL>>
\* A one-line statement with its terminator and line break.
Line(w) == <<w, SEMI, NL>>

(***************************************************************************)
(* schema/features/base.rs                                                 *)
(***************************************************************************)
BaseIndexes ==
    Line("CREATE INDEX IF NOT EXISTS idx_users_email ON users(email)")
 \o Line("CREATE INDEX IF NOT EXISTS idx_accounts_user_id ON accounts(user_id)")
 \o Line("CREATE INDEX IF NOT EXISTS idx_accounts_provider ON accounts(provider, provider_account_id)")
 \o Line("CREATE INDEX IF NOT EXISTS idx_sessions_user_id ON sessions(user_id)")
 \o Line("CREATE INDEX IF NOT EXISTS idx_sessions_token ON sessions(token)")
 \o Line("CREATE INDEX IF NOT EXISTS idx_sessions_expires_at ON sessions(expires_at)")
 \o Line("CREATE INDEX IF NOT EXISTS idx_verification_token_hash ON verification(token_hash)")
 \o Line("CREATE INDEX IF NOT EXISTS idx_verification_identifier ON verification(identifier)")
 \o Line("CREATE INDEX IF NOT EXISTS idx_verification_expires_at ON verification(expires_at)")

BASE_POSTGRES_UP ==
    <<NL>>
 \o Cmt("AuthKit Base Schema") \o Cmt("Feature: email_password") \o <<NL>>
 \o Cmt("Users table: Core user data")
 \o Tbl("CREATE TABLE IF NOT EXISTS users (", "users columns BIGINT") \o <<NL>>
 \o Cmt("Accounts table: Links authentication providers to users")
 \o Cmt("For email/password, provider = 'credential' and password_hash is set")
 \o Cmt("For OAuth (future), provider = 'google'/'github'/etc")
 \o Tbl("CREATE TABLE IF NOT EXISTS accounts (", "accounts columns BIGINT") \o <<NL>>
 \o Cmt("Sessions table: Active user sessions")
 \o Tbl("CREATE TABLE IF NOT EXISTS sessions (", "sessions columns BIGINT") \o <<NL>>
 \o Cmt("Verification table: Tokens for password reset, magic links, etc.")
 \o Tbl("CREATE TABLE IF NOT EXISTS verification (", "verification columns BIGINT") \o <<NL>>
 \o Cmt("Indexes for better query performance")
 \o BaseIndexes

BaseDown ==
    <<NL>>
 \o Cmt("Drop indexes first")
 \o Line("DROP INDEX IF EXISTS idx_verification_expires_at")
 \o Line("DROP INDEX IF EXISTS idx_verification_identifier")
 \o Line("DROP INDEX IF EXISTS idx_verification_token_hash")
 \o Line("DROP INDEX IF EXISTS idx_sessions_expires_at")
 \o Line("DROP INDEX IF EXISTS idx_sessions_token")
 \o Line("DROP INDEX IF EXISTS idx_sessions_user_id")
 \o Line("DROP INDEX IF EXISTS idx_accounts_provider")
 \o Line("DROP INDEX IF EXISTS idx_accounts_user_id")
 \o Line("DROP INDEX IF EXISTS idx_users_email")
 \o <<NL>>
 \o Cmt("Drop tables in reverse order (respecting foreign keys)")
 \o Line("DROP TABLE IF EXISTS verification")
 \o Line("DROP TABLE IF EXISTS sessions")
 \o Line("DROP TABLE IF EXISTS accounts")
 \o Line("DROP TABLE IF EXISTS users")

BASE_POSTGRES_DOWN == BaseDown

BASE_SQLITE_UP ==
    <<NL>>
 \o Cmt("AuthKit Base Schema") \o Cmt("Feature: email_password") \o <<NL>>
 \o Cmt("Users table: Core user data")
 \o Tbl("CREATE TABLE IF NOT EXISTS users (", "users columns INTEGER") \o <<NL>>
 \o Cmt("Accounts table: Links authentication providers to users")
 \o Tbl("CREATE TABLE IF NOT EXISTS accounts (", "accounts columns INTEGER") \o <<NL>>
 \o Cmt("Sessions table: Active user sessions")
 \o Tbl("CREATE TABLE IF NOT EXISTS sessions (", "sessions columns INTEGER") \o <<NL>>
 \o Cmt("Verification table: Tokens for password reset, magic links, etc.")
 \o Tbl("CREATE TABLE IF NOT EXISTS verification (", "verification columns INTEGER") \o <<NL>>
 \o Cmt("Indexes for better query performance")
 \o BaseIndexes

BASE_SQLITE_DOWN == BaseDown

(***************************************************************************)
(* schema/features/email_verification.rs                                   *)
(***************************************************************************)
EV_POSTGRES_UP ==
    <<NL>>
 \o Cmt("AuthKit Email Verification Feature")
 \o Cmt("Adds email verification support to users table") \o <<NL>>
 \o Cmt("Add email verification columns to users table")
 \o Line("ALTER TABLE users ADD COLUMN IF NOT EXISTS email_verified BOOLEAN NOT NULL DEFAULT FALSE")
 \o Line("ALTER TABLE users ADD COLUMN IF NOT EXISTS email_verified_at BIGINT") \o <<NL>>
 \o Cmt("Create index for email verification status queries")
 \o Line("CREATE INDEX IF NOT EXISTS idx_users_email_verified ON users(email_verified)")

EV_POSTGRES_DOWN ==
    <<NL>>
 \o Cmt("Remove email verification feature") \o <<NL>>
 \o Cmt("Drop index first")
 \o Line("DROP INDEX IF EXISTS idx_users_email_verified") \o <<NL>>
 \o Cmt("Remove email verification columns from users table")
 \o Line("ALTER TABLE users DROP COLUMN IF EXISTS email_verified_at")
 \o Line("ALTER TABLE users DROP COLUMN IF EXISTS email_verified")

EV_SQLITE_UP ==
    <<NL>>
 \o Cmt("AuthKit Email Verification Feature")
 \o Cmt("Adds email verification support to users table") \o <<NL>>
 \o Cmt("SQLite: Add email verification columns")
 \o Cmt("Note: SQLite 3.35.0+ supports ADD COLUMN, older versions need table recreation")
 \o Line("ALTER TABLE users ADD COLUMN email_verified INTEGER NOT NULL DEFAULT 0")
 \o Line("ALTER TABLE users ADD COLUMN email_verified_at INTEGER") \o <<NL>>
 \o Cmt("Create index for email verification status queries")
 \o Line("CREATE INDEX IF NOT EXISTS idx_users_email_verified ON users(email_verified)")

EV_SQLITE_DOWN ==
    <<NL>>
 \o Cmt("Remove email verification feature")
 \o Cmt("Note: SQLite doesn't support DROP COLUMN in older versions")
 \o Cmt("This requires table recreation for full compatibility") \o <<NL>>
 \o Cmt("Drop the index")
 \o Line("DROP INDEX IF EXISTS idx_users_email_verified") \o <<NL>>
 \o Cmt("For SQLite 3.35.0+, we can drop columns directly")
 \o Cmt("For older versions, a table recreation would be needed")
 \o Line("ALTER TABLE users DROP COLUMN email_verified_at")
 \o Line("ALTER TABLE users DROP COLUMN email_verified")

(***************************************************************************)
(* Sequence helpers                                                        *)
(***************************************************************************)
Range(s) == {s[i] : i \in 1..Len(s)}

(***************************************************************************)
(* Statement splitter: runner.rs, apply_migration and strip_leading_comments *)
(***************************************************************************)
RECURSIVE SplitOn(_, _)
\* str::split(sep): the pieces between the separators, empty pieces kept.
SplitOn(s, sep) ==
    IF \A i \in 1..Len(s) : s[i] # sep THEN <<s>>
    ELSE LET k == CHOOSE i \in 1..Len(s) :
                      s[i] = sep /\ \A j \in 1..(i - 1) : s[j] # sep
         IN  <<SubSeq(s, 1, k - 1)>> \o SplitOn(SubSeq(s, k + 1, Len(s)), sep)

\* str::trim(): leading and trailing whitespace removed.
Trim(s) ==
    LET solid == {i \in 1..Len(s) : s[i] \notin Whitespace}
    IN  IF solid = {} THEN <<>>
        ELSE LET lo == CHOOSE i \in solid : \A j \in solid : i <= j
                 hi == CHOOSE i \in solid : \A j \in solid : j <= i
             IN  SubSeq(s, lo, hi)

\* str::lines(): the pieces between line breaks; a line break is "\n" or
\* "\r\n", so a line that a break ends loses the carriage return before the
\* break; a final empty piece is not a line.
Lines(s) ==
    LET parts == SplitOn(s, NL)
        n == Len(parts)
        line(i) ==
            IF i < n /\ parts[i] # <<>> /\ parts[i][Len(parts[i])] = CR
            THEN SubSeq(parts[i], 1, Len(parts[i]) - 1)
            ELSE parts[i]
    IN  [i \in 1..(IF parts[n] = <<>> THEN n - 1 ELSE n) |-> line(i)]

RECURSIVE JoinLines(_)
\* [&str]::join("\n")
JoinLines(ls) ==
    IF ls = <<>> THEN <<>>
    ELSE IF Len(ls) = 1 THEN ls[1]
    ELSE ls[1] \o <<NL>> \o JoinLines(Tail(ls))

\* The test of runner.rs line 193 on one line.
IsBlankOrComment(line) ==
    LET t == Trim(line) IN t = <<>> \/ t[1] = DD

RECURSIVE SkipLeading(_)
\* The lines kept by the loop of strip_leading_comments.
SkipLeading(ls) ==
    IF ls = <<>> THEN <<>>
    ELSE IF IsBlankOrComment(Head(ls)) THEN SkipLeading(Tail(ls))
    ELSE ls

\* strip_leading_comments that drops every blank or comment line, the ones
\* after the first line of code too.
strip_every_comment_line(sql) ==
    Trim(JoinLines(SelectSeq(Lines(sql), LAMBDA line : ~IsBlankOrComment(line))))

strip_leading_comments(sql) == Trim(JoinLines(SkipLeading(Lines(sql))))

\* The loop body of apply_migration without the call of strip_leading_comments.
ExecutableUnstripped(piece) == Trim(piece)

\* What the loop body of apply_migration sends to the database for one piece of
\* split(';'): the statement, or <<>> when the piece is skipped.
Executable(piece) ==
    LET trimmed == Trim(piece)
    IN  IF trimmed = <<>> THEN <<>> ELSE strip_leading_comments(trimmed)

\* The statements apply_migration executes for a blob, when none fails.
Statements(sql) ==
    LET pieces == SplitOn(sql, SEMI)
        RECURSIVE Go(_)
        Go(i) == IF i > Len(pieces) THEN <<>>
                 ELSE IF Executable(pieces[i]) = <<>> THEN Go(i + 1)
                 ELSE <<Executable(pieces[i])>> \o Go(i + 1)
    IN  Go(1)


(***************************************************************************)
(* Checksum engine: migrations/mod.rs, compute_checksum                    *)
(*                                                                         *)
(* SHA-256 is replaced by a 15-bit polynomial hash of the token codes,     *)
(* rendered like hex::encode as lowercase hexadecimal digits.  It is       *)
(* deterministic and depends on every token and on the order of the tokens. *)
(***************************************************************************)
\* Every text of the catalogue, one after the other: a token's code is the place
\* of its first occurrence here.
Corpus ==
    <<SEMI, NL, SP, DD>> \o BASE_POSTGRES_UP \o BASE_SQLITE_UP \o BaseDown
    \o EV_POSTGRES_UP \o EV_POSTGRES_DOWN \o EV_SQLITE_UP \o EV_SQLITE_DOWN

TokenCode ==
    [t \in Range(Corpus) |->
        CHOOSE i \in 1..Len(Corpus) :
            Corpus[i] = t /\ \A j \in 1..(i - 1) : Corpus[j] # t]

HashModulus == 2^15

RECURSIVE HashMap(_, _, _)
\* hasher.update(content.as_bytes()): each token turns the state h into
\* (31 * h + code) mod 2^15.  The effect of content[lo..hi] is the map
\* h |-> (a * h + b) mod 2^15, computed here as <<a, b>> by halving the range.
HashMap(content, lo, hi) ==
    IF lo > hi THEN <<1, 0>>
    ELSE IF lo = hi THEN <<31, TokenCode[content[lo]] % HashModulus>>
    ELSE LET mid == (lo + hi) \div 2
             l == HashMap(content, lo, mid)
             r == HashMap(content, mid + 1, hi)
         IN  <<(r[1] * l[1]) % HashModulus, (r[1] * l[2] + r[2]) % HashModulus>>

\* hasher.finalize(), from the initial state h
HashFrom(h, content) ==
    LET ab == HashMap(content, 1, Len(content))
    IN  (ab[1] * h + ab[2]) % HashModulus

HexDigits == <<"0", "1", "2", "3", "4", "5", "6", "7",
               "8", "9", "a", "b", "c", "d", "e", "f">>

\* hex::encode of the digest
HexEncode(n) ==
    <<HexDigits[((n \div 4096) % 16) + 1], HexDigits[((n \div 256) % 16) + 1],
      HexDigits[((n \div 16) % 16) + 1], HexDigits[(n % 16) + 1]>>

compute_checksum(content) == HexEncode(HashFrom(7, content))

(***************************************************************************)
(* Configuration: config.rs                                                *)
(***************************************************************************)
DatabaseType == {"sqlite", "postgres"}

\* enum Feature
Feature == {"EmailPassword", "EmailVerification"}

\* What a configuration file can hold once parsed.
AuthKitConfig ==
    [db_type : {"sqlite", "postgres", "mysql"},
     email_password : BOOLEAN, email_verification : BOOLEAN]

\* AuthKitConfig::validate: TRUE when it returns Ok.
validate(config) ==
    /\ config.db_type \in {"sqlite", "postgres"}
    /\ config.email_password

\* AuthKitConfig::database_type (of a configuration that validate accepts)
database_type(config) == config.db_type

\* enabled_features that pushes the add-on features before the base feature.
enabled_features_addons_first(config) ==
    (IF config.email_verification THEN <<"EmailVerification">> ELSE <<>>)
    \o (IF config.email_password THEN <<"EmailPassword">> ELSE <<>>)

\* AuthKitConfig::enabled_features
enabled_features(config) ==
    (IF config.email_password THEN <<"EmailPassword">> ELSE <<>>)
    \o (IF config.email_verification THEN <<"EmailVerification">> ELSE <<>>)

\* Feature::migration_name
migration_name(feature) ==
    IF feature = "EmailPassword" THEN "base" ELSE "email_verification"

\* Feature::version with one number for both features.
version_shared(feature) == 1

\* Feature::version
version(feature) == IF feature = "EmailPassword" THEN 1 ELSE 2

(***************************************************************************)
(* A function called alone, outside a command                              *)
(***************************************************************************)
VARIABLES
    fn_available,  \* the catalogue handed to a function of the runner called alone
    fn_applied,    \* the applied rows handed to it
    fn_result      \* what the function returned, with the inputs drawn for it

(***************************************************************************)
(* Feature catalogue: schema/mod.rs                                        *)
(***************************************************************************)
FeatureSql(feature, db_type) ==
    CASE feature = "EmailPassword" /\ db_type = "postgres" ->
            <<BASE_POSTGRES_UP, BASE_POSTGRES_DOWN>>
      [] feature = "EmailPassword" /\ db_type = "sqlite" ->
            <<BASE_SQLITE_UP, BASE_SQLITE_DOWN>>
      [] feature = "EmailVerification" /\ db_type = "postgres" ->
            <<EV_POSTGRES_UP, EV_POSTGRES_DOWN>>
      [] feature = "EmailVerification" /\ db_type = "sqlite" ->
            <<EV_SQLITE_UP, EV_SQLITE_DOWN>>

\* get_feature_migration whose checksum takes in how many catalogues were built
\* before (a counter that outlives the call).
get_feature_migration_counting(feature, db_type) ==
    LET sql == FeatureSql(feature, db_type)
        built == IF fn_result.op = "get_migrations_for_features"
                 THEN Len(fn_result.builds) ELSE 0
    IN  [version |-> version(feature),
         name |-> migration_name(feature),
         up_sql |-> sql[1],
         down_sql |-> sql[2],
         checksum |-> compute_checksum(sql[1] \o [i \in 1..built |-> "--"])]

get_feature_migration(feature, db_type) ==
    LET sql == FeatureSql(feature, db_type)
    IN  [version |-> version(feature),
         name |-> migration_name(feature),
         up_sql |-> sql[1],
         down_sql |-> sql[2],
         checksum |-> compute_checksum(sql[1])]

get_migrations_for_features(features, db_type) ==
    [i \in 1..Len(features) |-> get_feature_migration(features[i], db_type)]

\* The catalogue of a configuration that validate accepts.
BuildCatalogue(config) ==
    get_migrations_for_features(enabled_features(config), database_type(config))

RECURSIVE CataloguesOf(_)
CataloguesOf(configs) ==
    IF configs = {} THEN [c \in {} |-> <<>>]
    ELSE LET c == CHOOSE c \in configs : TRUE
         IN  (c :> BuildCatalogue(c)) @@ CataloguesOf(configs \ {c})

\* The catalogues of all configurations that validate accepts, built once.
Catalogues == CataloguesOf({c \in AuthKitConfig : validate(c)})

\* migrations::get_migrations_from_config
get_migrations_from_config(config) == Catalogues[config]

(***************************************************************************)
(* The target database: what sqlx::query(sql).execute(pool) does with the  *)
(* statements of the catalogue.  The schema is the set of objects that     *)
(* exist: tables, the columns added after creation, indexes and foreign    *)
(* keys.                                                                   *)
(***************************************************************************)
Table(t) == [kind |-> "table", name |-> t, on |-> "", col |-> ""]
Index(i, t, c) == [kind |-> "index", name |-> i, on |-> t, col |-> c]
Column(c, t) == [kind |-> "column", name |-> c, on |-> t, col |-> ""]
ForeignKey(t, ref) == [kind |-> "fk", name |-> t, on |-> ref, col |-> ""]

MIGRATIONS_TABLE == Table("_authkit_migrations")

Stmt(head, op, obj, guard) == [head |-> head, op |-> op, obj |-> obj, guard |-> guard]

\* The statements of base.rs and email_verification.rs by their first line:
\* the operation, the object, and whether IF [NOT] EXISTS guards it.
SqlStatements ==
  { Stmt("CREATE TABLE IF NOT EXISTS users (", "create", Table("users"), TRUE),
    Stmt("CREATE TABLE IF NOT EXISTS accounts (", "create", Table("accounts"), TRUE),
    Stmt("CREATE TABLE IF NOT EXISTS sessions (", "create", Table("sessions"), TRUE),
    Stmt("CREATE TABLE IF NOT EXISTS verification (", "create", Table("verification"), TRUE),
    Stmt("CREATE INDEX IF NOT EXISTS idx_users_email ON users(email)",
         "create", Index("idx_users_email", "users", ""), TRUE),
    Stmt("CREATE INDEX IF NOT EXISTS idx_accounts_user_id ON accounts(user_id)",
         "create", Index("idx_accounts_user_id", "accounts", ""), TRUE),
    Stmt("CREATE INDEX IF NOT EXISTS idx_accounts_provider ON accounts(provider, provider_account_id)",
         "create", Index("idx_accounts_provider", "accounts", ""), TRUE),
    Stmt("CREATE INDEX IF NOT EXISTS idx_sessions_user_id ON sessions(user_id)",
         "create", Index("idx_sessions_user_id", "sessions", ""), TRUE),
    Stmt("CREATE INDEX IF NOT EXISTS idx_sessions_token ON sessions(token)",
         "create", Index("idx_sessions_token", "sessions", ""), TRUE),
    Stmt("CREATE INDEX IF NOT EXISTS idx_sessions_expires_at ON sessions(expires_at)",
         "create", Index("idx_sessions_expires_at", "sessions", ""), TRUE),
    Stmt("CREATE INDEX IF NOT EXISTS idx_verification_token_hash ON verification(token_hash)",
         "create", Index("idx_verification_token_hash", "verification", ""), TRUE),
    Stmt("CREATE INDEX IF NOT EXISTS idx_verification_identifier ON verification(identifier)",
         "create", Index("idx_verification_identifier", "verification", ""), TRUE),
    Stmt("CREATE INDEX IF NOT EXISTS idx_verification_expires_at ON verification(expires_at)",
         "create", Index("idx_verification_expires_at", "verification", ""), TRUE),
    Stmt("CREATE INDEX IF NOT EXISTS idx_users_email_verified ON users(email_verified)",
         "create", Index("idx_users_email_verified", "users", "email_verified"), TRUE),
    Stmt("ALTER TABLE users ADD COLUMN IF NOT EXISTS email_verified BOOLEAN NOT NULL DEFAULT FALSE",
         "create", Column("email_verified", "users"), TRUE),
    Stmt("ALTER TABLE users ADD COLUMN IF NOT EXISTS email_verified_at BIGINT",
         "create", Column("email_verified_at", "users"), TRUE),
    Stmt("ALTER TABLE users ADD COLUMN email_verified INTEGER NOT NULL DEFAULT 0",
         "create", Column("email_verified", "users"), FALSE),
    Stmt("ALTER TABLE users ADD COLUMN email_verified_at INTEGER",
         "create", Column("email_verified_at", "users"), FALSE),
    Stmt("DROP INDEX IF EXISTS idx_verification_expires_at",
         "drop", Index("idx_verification_expires_at", "verification", ""), TRUE),
    Stmt("DROP INDEX IF EXISTS idx_verification_identifier",
         "drop", Index("idx_verification_identifier", "verification", ""), TRUE),
    Stmt("DROP INDEX IF EXISTS idx_verification_token_hash",
         "drop", Index("idx_verification_token_hash", "verification", ""), TRUE),
    Stmt("DROP INDEX IF EXISTS idx_sessions_expires_at",
         "drop", Index("idx_sessions_expires_at", "sessions", ""), TRUE),
    Stmt("DROP INDEX IF EXISTS idx_sessions_token",
         "drop", Index("idx_sessions_token", "sessions", ""), TRUE),
    Stmt("DROP INDEX IF EXISTS idx_sessions_user_id",
         "drop", Index("idx_sessions_user_id", "sessions", ""), TRUE),
    Stmt("DROP INDEX IF EXISTS idx_accounts_provider",
         "drop", Index("idx_accounts_provider", "accounts", ""), TRUE),
    Stmt("DROP INDEX IF EXISTS idx_accounts_user_id",
         "drop", Index("idx_accounts_user_id", "accounts", ""), TRUE),
    Stmt("DROP INDEX IF EXISTS idx_users_email",
         "drop", Index("idx_users_email", "users", ""), TRUE),
    Stmt("DROP INDEX IF EXISTS idx_users_email_verified",
         "drop", Index("idx_users_email_verified", "users", "email_verified"), TRUE),
    Stmt("DROP TABLE IF EXISTS verification", "drop", Table("verification"), TRUE),
    Stmt("DROP TABLE IF EXISTS sessions", "drop", Table("sessions"), TRUE),
    Stmt("DROP TABLE IF EXISTS accounts", "drop", Table("accounts"), TRUE),
    Stmt("DROP TABLE IF EXISTS users", "drop", Table("users"), TRUE),
    Stmt("ALTER TABLE users DROP COLUMN IF EXISTS email_verified_at",
         "drop", Column("email_verified_at", "users"), TRUE),
    Stmt("ALTER TABLE users DROP COLUMN IF EXISTS email_verified",
         "drop", Column("email_verified", "users"), TRUE),
    Stmt("ALTER TABLE users DROP COLUMN email_verified_at",
         "drop", Column("email_verified_at", "users"), FALSE),
    Stmt("ALTER TABLE users DROP COLUMN email_verified",
         "drop", Column("email_verified", "users"), FALSE) }

\* The tables whose definition holds REFERENCES users(id).
ReferencesOf(t) == IF t \in {"accounts", "sessions", "verification"} THEN {"users"} ELSE {}

\* What belongs to a table and goes with it: its indexes, its added columns and
\* the foreign keys it declares.
PartsOf(t, schema) ==
    {o \in schema : \/ o.kind \in {"index", "column"} /\ o.on = t
                    \/ o.kind = "fk" /\ o.name = t}

\* The foreign keys of other tables that reference table t.
ReferencesTo(t, schema) == {o \in schema : o.kind = "fk" /\ o.on = t /\ o.name # t}

Failed(schema) == [ok |-> FALSE, schema |-> schema]
Done(schema) == [ok |-> TRUE, schema |-> schema]

\* A database that takes IF NOT EXISTS for nothing: creating what exists fails.
ExecCreateUnguarded(schema, db_type, m) ==
    LET o == m.obj IN
    IF o \in schema THEN Failed(schema)
    ELSE IF o.kind = "table"
    THEN Done(schema \cup {o} \cup {ForeignKey(o.name, r) : r \in ReferencesOf(o.name)})
    ELSE IF Table(o.on) \notin schema THEN Failed(schema)
    ELSE Done(schema \cup {o})

\* CREATE TABLE / CREATE INDEX / ALTER TABLE ADD COLUMN
ExecCreate(schema, db_type, m) ==
    LET o == m.obj IN
    IF o.kind = "table" THEN
        IF o \in schema THEN (IF m.guard THEN Done(schema) ELSE Failed(schema))
        ELSE IF db_type = "postgres"
                /\ \E r \in ReferencesOf(o.name) : Table(r) \notin schema
             THEN Failed(schema)
        ELSE Done(schema \cup {o} \cup {ForeignKey(o.name, r) : r \in ReferencesOf(o.name)})
    ELSE
        IF Table(o.on) \notin schema THEN Failed(schema)
        ELSE IF o \in schema THEN (IF m.guard THEN Done(schema) ELSE Failed(schema))
        ELSE IF o.kind = "index" /\ o.col # "" /\ Column(o.col, o.on) \notin schema
             THEN Failed(schema)
        ELSE Done(schema \cup {o})

\* DROP TABLE / DROP INDEX / ALTER TABLE DROP COLUMN (none of them CASCADE)
ExecDrop(schema, db_type, m) ==
    LET o == m.obj IN
    IF o.kind = "table" THEN
        IF o \notin schema THEN (IF m.guard THEN Done(schema) ELSE Failed(schema))
        ELSE IF db_type = "postgres" /\ ReferencesTo(o.name, schema) # {}
             THEN Failed(schema)
        ELSE Done((schema \ {o}) \ PartsOf(o.name, schema))
    ELSE IF o.kind = "index" THEN
        IF o \in schema THEN Done(schema \ {o})
        ELSE IF m.guard THEN Done(schema) ELSE Failed(schema)
    ELSE
        LET indexed == {i \in schema : i.kind = "index" /\ i.on = o.on /\ i.col = o.name} IN
        IF Table(o.on) \notin schema THEN Failed(schema)
        ELSE IF o \notin schema THEN (IF m.guard THEN Done(schema) ELSE Failed(schema))
        ELSE IF indexed # {} /\ db_type = "sqlite" THEN Failed(schema)
        ELSE Done((schema \ {o}) \ indexed)

\* Database::drop_table: DROP TABLE IF EXISTS t, with CASCADE on PostgreSQL,
\* which drops the foreign keys of other tables that reference t.
drop_table(schema, db_type, t) ==
    IF Table(t) \notin schema THEN Done(schema)
    ELSE Done(((schema \ {Table(t)}) \ PartsOf(t, schema))
              \ (IF db_type = "postgres" THEN ReferencesTo(t, schema) ELSE {}))

\* The database's answer to one statement: whether it succeeded, and the schema
\* afterwards.  Text that is no statement of the catalogue is a syntax error.
Execute(schema, db_type, sql) ==
    IF sql = <<>> \/ ~(\E m \in SqlStatements : m.head = sql[1]) THEN Failed(schema)
    ELSE LET m == CHOOSE m \in SqlStatements : m.head = sql[1]
         IN  IF m.op = "create" THEN ExecCreate(schema, db_type, m)
             ELSE ExecDrop(schema, db_type, m)

(***************************************************************************)
(* Migration runner, the pure part: migrations/runner.rs                   *)
(***************************************************************************)
Versions(ms) == {ms[i].version : i \in 1..Len(ms)}

RECURSIVE InsertByVersion(_, _)
\* x placed after every element whose version is not greater: a stable insertion.
InsertByVersion(x, sorted) ==
    IF sorted = <<>> THEN <<x>>
    ELSE IF Head(sorted).version <= x.version
         THEN <<Head(sorted)>> \o InsertByVersion(x, Tail(sorted))
    ELSE <<x>> \o sorted

RECURSIVE SortByVersion(_)
\* sort_by_key(version): a stable sort.
SortByVersion(s) ==
    IF s = <<>> THEN <<>>
    ELSE InsertByVersion(s[Len(s)], SortByVersion(SubSeq(s, 1, Len(s) - 1)))

RECURSIVE SetToSeq(_)
SetToSeq(S) ==
    IF S = {} THEN <<>>
    ELSE LET x == CHOOSE x \in S : TRUE IN <<x>> \o SetToSeq(S \ {x})

\* The SELECT with ORDER BY version DESC.
get_applied_migrations_descending(table_rows) ==
    LET up == SortByVersion(SetToSeq(table_rows))
    IN  [i \in 1..Len(up) |-> up[Len(up) + 1 - i]]

\* SELECT version, name, applied_at, checksum FROM _authkit_migrations ORDER BY version
get_applied_migrations(table_rows) == SortByVersion(SetToSeq(table_rows))

\* get_pending_migrations that takes a migration for applied when a row holds
\* its checksum.
get_pending_migrations_by_checksum(available, applied) ==
    LET applied_checksums == {applied[i].checksum : i \in 1..Len(applied)}
    IN  SelectSeq(available, LAMBDA m : m.checksum \notin applied_checksums)

\* get_pending_migrations without its filter on the applied versions.
get_pending_migrations_unfiltered(available, applied) == available

\* get_pending_migrations that hands the queue over in descending order.
get_pending_migrations_descending(available, applied) ==
    LET applied_versions == Versions(applied)
        queue == SelectSeq(available, LAMBDA m : m.version \notin applied_versions)
    IN  [i \in 1..Len(queue) |-> queue[Len(queue) + 1 - i]]

get_pending_migrations(available, applied) ==
    LET applied_versions == Versions(applied)
    IN  SelectSeq(available, LAMBDA m : m.version \notin applied_versions)

None == <<>>
Some(x) == <<x>>

\* applied_map.get(version): collecting into a HashMap keeps the last entry of a key.
AppliedMapGet(applied, v) ==
    LET hits == {i \in 1..Len(applied) : applied[i].version = v}
    IN  IF hits = {} THEN None
        ELSE Some(applied[CHOOSE i \in hits : \A j \in hits : j <= i])

\* get_migration_status without the sort of line 133.
get_migration_status_unsorted(available, applied) ==
    LET row(m) ==
            LET hit == AppliedMapGet(applied, m.version)
            IN  IF hit # None
                THEN [version |-> m.version, name |-> m.name, state |-> "Applied",
                      applied_at |-> Some(hit[1].applied_at)]
                ELSE [version |-> m.version, name |-> m.name, state |-> "Pending",
                      applied_at |-> None]
        missing == SelectSeq(applied, LAMBDA a : a.version \notin Versions(available))
    IN  [i \in 1..Len(available) |-> row(available[i])]
        \o [i \in 1..Len(missing) |->
               [version |-> missing[i].version, name |-> missing[i].name,
                state |-> "Missing", applied_at |-> Some(missing[i].applied_at)]]

\* get_migration_status without its second loop (lines 119-131).
get_migration_status_without_missing(available, applied) ==
    LET row(m) ==
            LET hit == AppliedMapGet(applied, m.version)
            IN  IF hit # None
                THEN [version |-> m.version, name |-> m.name, state |-> "Applied",
                      applied_at |-> Some(hit[1].applied_at)]
                ELSE [version |-> m.version, name |-> m.name, state |-> "Pending",
                      applied_at |-> None]
    IN  SortByVersion([i \in 1..Len(available) |-> row(available[i])])

get_migration_status(available, applied) ==
    LET FromAvailable(m) ==
            LET hit == AppliedMapGet(applied, m.version)
            IN  IF hit # None
                THEN [version |-> m.version, name |-> m.name, state |-> "Applied",
                      applied_at |-> Some(hit[1].applied_at)]
                ELSE [version |-> m.version, name |-> m.name, state |-> "Pending",
                      applied_at |-> None]
        FromApplied(a) ==
            [version |-> a.version, name |-> a.name, state |-> "Missing",
             applied_at |-> Some(a.applied_at)]
        available_versions == Versions(available)
        first == [i \in 1..Len(available) |-> FromAvailable(available[i])]
        missing == SelectSeq(applied, LAMBDA a : a.version \notin available_versions)
        second == [i \in 1..Len(missing) |-> FromApplied(missing[i])]
    IN  SortByVersion(first \o second)

Ok == [kind |-> "Ok"]
ChecksumMismatch(v, expected, actual) ==
    [kind |-> "ChecksumMismatch", version |-> v, expected |-> expected, actual |-> actual]
\* CliError::Migration(format!("Failed to execute migration {}: {}", name, e))
MigrationError(name) == [kind |-> "Migration", name |-> name]
\* CliError::Database(e), by the ? operator
DatabaseError == [kind |-> "Database"]
ConfigParse == [kind |-> "ConfigParse"]
\* The process was killed: it returns nothing.
Interrupted == [kind |-> "Interrupted"]

\* available_map.get(version): collecting into a HashMap keeps the last entry of a key.
AvailableMapGet(available, v) ==
    LET hits == {i \in 1..Len(available) : available[i].version = v}
    IN  IF hits = {} THEN None
        ELSE Some(available[CHOOSE i \in hits : \A j \in hits : j <= i])

RECURSIVE VerifyLoopKeepsGoing(_, _)
\* verify_checksums that goes on after a mismatch and reports the last one.
VerifyLoopKeepsGoing(available, applied) ==
    IF applied = <<>> THEN Ok
    ELSE LET a == applied[Len(applied)]
             hit == AvailableMapGet(available, a.version)
         IN  IF hit # None /\ hit[1].checksum # a.checksum
             THEN ChecksumMismatch(a.version, a.checksum, hit[1].checksum)
             ELSE VerifyLoopKeepsGoing(available, SubSeq(applied, 1, Len(applied) - 1))

RECURSIVE VerifyLoopChecksMissing(_, _)
\* verify_checksums that takes a row without a catalogue entry for a mismatch.
VerifyLoopChecksMissing(available, applied) ==
    IF applied = <<>> THEN Ok
    ELSE LET a == Head(applied)
             hit == AvailableMapGet(available, a.version)
         IN  IF hit = None
             THEN ChecksumMismatch(a.version, a.checksum, <<>>)
             ELSE IF hit[1].checksum # a.checksum
             THEN ChecksumMismatch(a.version, a.checksum, hit[1].checksum)
             ELSE VerifyLoopChecksMissing(available, Tail(applied))

RECURSIVE VerifyLoop(_, _)
\* The loop of verify_checksums over the applied rows, in their order.
VerifyLoop(available, applied) ==
    IF applied = <<>> THEN Ok
    ELSE LET a == Head(applied)
             hit == AvailableMapGet(available, a.version)
         IN  IF hit # None /\ hit[1].checksum # a.checksum
             THEN ChecksumMismatch(a.version, a.checksum, hit[1].checksum)
             ELSE VerifyLoop(available, Tail(applied))

\* For each piece of sql.split(';'), what the loop body of apply_migration and
\* rollback_migration sends to the database (<<>>: nothing).
ExecutablePieces(sql) ==
    LET pieces == SplitOn(sql, SEMI)
    IN  [i \in 1..Len(pieces) |-> Executable(pieces[i])]

\* The same for the texts of the catalogue, computed once.
CataloguePieces ==
    [sql \in {BASE_POSTGRES_UP, BASE_POSTGRES_DOWN, BASE_SQLITE_UP, BASE_SQLITE_DOWN,
              EV_POSTGRES_UP, EV_POSTGRES_DOWN, EV_SQLITE_UP, EV_SQLITE_DOWN}
        |-> ExecutablePieces(sql)]

PiecesOf(sql) ==
    IF sql \in DOMAIN CataloguePieces THEN CataloguePieces[sql] ELSE ExecutablePieces(sql)

\* The place of the next piece of split(';') after piece `from` that holds an
\* executable statement, 0 when there is none.
NextStatement(sql, from) ==
    LET plan == PiecesOf(sql)
        later == {i \in (from + 1)..Len(plan) : plan[i] # <<>>}
    IN  IF later = {} THEN 0 ELSE CHOOSE i \in later : \A j \in later : i <= j

StatementAt(sql, i) == PiecesOf(sql)[i]

(***************************************************************************)
(* The system: one target database and the processes that run commands on  *)
(* it.                                                                     *)
(***************************************************************************)
\* The processes.  Under Spec one process runs one command after the other
\* (the single logical flow of an invocation).
Runners == {"r1", "r2"}
Main == "r1"

\* The latest value of the clock of the model.
MaxClock == 1

\* How many times rollback_migration is called in one behaviour.
MaxRollbacks == 1

VARIABLES
    url_db_type,   \* Database.db_type, detected from the URL of the target database
    schema,        \* the objects that exist in the target database
    rows,          \* the rows of _authkit_migrations
    clock,         \* chrono::Utc::now().timestamp()
    pc,            \* per process: where it is in its command
    cmd,           \* per process: the command it runs
    config,        \* per process: the configuration it loaded
    dry_run,       \* per process: args.dry_run
    applied,       \* per process: the rows it fetched
    pending,       \* per process: its queue of pending migrations
    mi,            \* per process: the place in pending of the migration in hand
    si,            \* per process: the piece of split(';') executed last
    result,        \* per process: what the command returned
    statuses,      \* per process: the list the status command printed
    printed,       \* per process: the summary the status command printed below it
    run_log,       \* history, per process: the statements and inserts of this run
    last,          \* history, per process: how its latest command ended
    prev,          \* history, per process: how the command before this one ended
    row_log,       \* history: for each row, the statements its apply call executed
    rollbacks,     \* history: how many times rollback_migration was called
    files,         \* the files of the output directory of generate
    force,         \* per process: args.force
    to_drop,       \* per process: tables_to_drop of destroy
    destroys       \* history: how many times destroy was started

fnVars == <<fn_available, fn_applied, fn_result>>

\* What generate and destroy work on besides the database.
toolVars == <<files, force, to_drop, destroys>>

vars == <<url_db_type, schema, rows, clock, pc, cmd, config, dry_run, applied,
          pending, mi, si, result, statuses, printed, run_log, last, prev, row_log,
          rollbacks, toolVars, fnVars>>

NoConfig == [db_type |-> "", email_password |-> FALSE, email_verification |-> FALSE]
NoResult == [kind |-> "None"]
NoRun == [kind |-> "none", config |-> NoConfig]

NotCalled == [op |-> "none", out |-> <<>>]

(***************************************************************************)
(* Files: commands/generate.rs                                             *)
(***************************************************************************)
\* format!("{:03}", version)
Pad3(n) ==
    LET digit(d) == <<"0", "1", "2", "3", "4", "5", "6", "7", "8", "9">>[d + 1]
    IN  (IF n >= 1000 THEN <<digit(n \div 1000)>> ELSE <<>>)
        \o <<digit((n \div 100) % 10), digit((n \div 10) % 10), digit(n % 10)>>

\* output_dir.join(format!("{:03}_{}.up.sql", migration.version, migration.name))
up_path(migration) == Pad3(migration.version) \o <<"_", migration.name, ".up.sql">>
\* output_dir.join(format!("{:03}_{}.down.sql", migration.version, migration.name))
down_path(migration) == Pad3(migration.version) \o <<"_", migration.name, ".down.sql">>

\* The paths generate can write to, whatever the configuration.
Paths ==
    UNION {LET m == [version |-> version(f), name |-> migration_name(f)]
           IN  {up_path(m), down_path(m)} : f \in Feature}

\* An output directory without files; a file is None or Some(its text).
NoFiles == [path \in Paths |-> None]
\* The text of a file that generate did not write.
EDITED == <<"edited by hand">>

\* The state of the database and of the processes before the first command.
InitSystem ==
    /\ url_db_type \in DatabaseType
    /\ schema = {}
    /\ rows = {}
    /\ clock = 0
    /\ pc = [r \in Runners |-> "idle"]
    /\ cmd = [r \in Runners |-> ""]
    /\ config = [r \in Runners |-> NoConfig]
    /\ dry_run = [r \in Runners |-> FALSE]
    /\ applied = [r \in Runners |-> <<>>]
    /\ pending = [r \in Runners |-> <<>>]
    /\ mi = [r \in Runners |-> 0]
    /\ si = [r \in Runners |-> 0]
    /\ result = [r \in Runners |-> NoResult]
    /\ statuses = [r \in Runners |-> <<>>]
    /\ printed = [r \in Runners |-> <<>>]
    /\ run_log = [r \in Runners |-> <<>>]
    /\ last = [r \in Runners |-> NoRun]
    /\ prev = [r \in Runners |-> "other"]
    /\ row_log = {}
    /\ rollbacks = 0
    /\ files = NoFiles
    /\ force = [r \in Runners |-> FALSE]
    /\ to_drop = [r \in Runners |-> <<>>]
    /\ destroys = 0

Init ==
    /\ InitSystem
    /\ fn_available = <<>>
    /\ fn_applied = <<>>
    /\ fn_result = NotCalled

\* A process starts command c with configuration cfg.  The history notes whether
\* the command repeats a migrate that succeeded with the same configuration, or
\* follows one that failed.
Begin(r, c, cfg, dry, at) ==
    /\ pc[r] = "idle"
    /\ prev' = [prev EXCEPT ![r] =
                  IF last[r].kind = "migrated" /\ last[r].config = cfg THEN "repeat"
                  ELSE IF last[r].kind = "failed" THEN "failed"
                  ELSE IF last[r].kind \in {"destroyed", "reported"} THEN last[r].kind
                  ELSE "other"]
    /\ cmd' = [cmd EXCEPT ![r] = c]
    /\ config' = [config EXCEPT ![r] = cfg]
    /\ dry_run' = [dry_run EXCEPT ![r] = dry]
    /\ pc' = [pc EXCEPT ![r] = at]
    /\ UNCHANGED <<fnVars, statuses, printed, url_db_type, schema, rows, clock, applied, si,
                   run_log, last, row_log>>

\* The command returns res.
Return(r, res) ==
    /\ pc' = [pc EXCEPT ![r] = "done"]
    /\ result' = [result EXCEPT ![r] = res]

\* The process ends; the history keeps how its command ended.
Exit(r) ==
    /\ pc[r] = "done"
    /\ last' = [last EXCEPT ![r] =
                  IF cmd[r] \in {"migrate", "run_pending"} /\ ~dry_run[r]
                     /\ result[r].kind = "Ok"
                  THEN [kind |-> "migrated", config |-> config[r]]
                  ELSE IF cmd[r] \in {"migrate", "run_pending"}
                          /\ result[r].kind \in {"Migration", "Database", "Interrupted"}
                  THEN [kind |-> "failed", config |-> NoConfig]
                  ELSE IF cmd[r] = "destroy" /\ result[r].kind = "Ok"
                          /\ \E k \in 1..Len(run_log[r]) : run_log[r][k].what = "drop"
                  THEN [kind |-> "destroyed", config |-> NoConfig]
                  ELSE IF cmd[r] = "status" /\ result[r].kind = "Ok"
                          /\ prev[r] = "destroyed"
                  THEN [kind |-> "reported", config |-> NoConfig]
                  ELSE [kind |-> "other", config |-> NoConfig]]
    /\ pc' = [pc EXCEPT ![r] = "idle"]
    /\ cmd' = [cmd EXCEPT ![r] = ""]
    /\ config' = [config EXCEPT ![r] = NoConfig]
    /\ dry_run' = [dry_run EXCEPT ![r] = FALSE]
    /\ applied' = [applied EXCEPT ![r] = <<>>]
    /\ pending' = [pending EXCEPT ![r] = <<>>]
    /\ mi' = [mi EXCEPT ![r] = 0]
    /\ si' = [si EXCEPT ![r] = 0]
    /\ result' = [result EXCEPT ![r] = NoResult]
    /\ run_log' = [run_log EXCEPT ![r] = <<>>]
    /\ prev' = [prev EXCEPT ![r] = "other"]
    /\ statuses' = [statuses EXCEPT ![r] = <<>>]
    /\ printed' = [printed EXCEPT ![r] = <<>>]
    /\ force' = [force EXCEPT ![r] = FALSE]
    /\ to_drop' = [to_drop EXCEPT ![r] = <<>>]
    /\ UNCHANGED <<fnVars, files, destroys, rollbacks, url_db_type, schema, rows, clock,
                   row_log>>

\* commands/migrate.rs run, lines 11-41: load the configuration, connect.
MigrateStart(r) ==
    \E cfg \in AuthKitConfig, dry \in BOOLEAN :
        /\ Begin(r, "migrate", cfg, dry, IF validate(cfg) THEN "ensure" ELSE "done")
        /\ result' = [result EXCEPT ![r] = IF validate(cfg) THEN NoResult ELSE ConfigParse]
        /\ UNCHANGED <<pending, mi, rollbacks, toolVars>>

\* MigrationRunner::run_pending is called with a configuration.
RunPendingStart(r) ==
    \E cfg \in {c \in AuthKitConfig : validate(c)} :
        /\ Begin(r, "run_pending", cfg, FALSE, "ensure")
        /\ result' = [result EXCEPT ![r] = NoResult]
        /\ UNCHANGED <<pending, mi, rollbacks, toolVars>>

\* ensure_migrations_table whose CREATE TABLE has no IF NOT EXISTS.
EnsureMigrationsTableWithoutIfNotExists(r) ==
    /\ pc[r] = "ensure"
    /\ \E db_ok \in BOOLEAN :
        IF db_ok /\ MIGRATIONS_TABLE \notin schema
        THEN /\ schema' = schema \cup {MIGRATIONS_TABLE}
             /\ pc' = [pc EXCEPT ![r] = "fetch"]
             /\ UNCHANGED result
        ELSE /\ Return(r, DatabaseError)
             /\ UNCHANGED schema
    /\ UNCHANGED <<fnVars, toolVars, rollbacks, statuses, printed, url_db_type, rows, clock,
                   cmd, config, dry_run, applied, pending, mi, si, run_log, last, prev,
                   row_log>>

\* ensure_migrations_table that drops the tracking table and creates it anew.
EnsureMigrationsTableRecreates(r) ==
    /\ pc[r] = "ensure"
    /\ \E db_ok \in BOOLEAN :
        IF db_ok
        THEN /\ schema' = schema \cup {MIGRATIONS_TABLE}
             /\ rows' = {}
             /\ pc' = [pc EXCEPT ![r] = "fetch"]
             /\ UNCHANGED result
        ELSE /\ Return(r, DatabaseError)
             /\ UNCHANGED <<schema, rows>>
    /\ UNCHANGED <<fnVars, toolVars, rollbacks, statuses, printed, url_db_type, clock, cmd,
                   config, dry_run, applied, pending, mi, si, run_log, last, prev,
                   row_log>>

\* MigrationRunner::ensure_migrations_table: CREATE TABLE IF NOT EXISTS
EnsureMigrationsTable(r) ==
    /\ pc[r] = "ensure"
    /\ \E db_ok \in BOOLEAN :
        IF db_ok
        THEN /\ schema' = schema \cup {MIGRATIONS_TABLE}
             /\ pc' = [pc EXCEPT ![r] = "fetch"]
             /\ UNCHANGED result
        ELSE /\ Return(r, DatabaseError)
             /\ UNCHANGED schema
    /\ UNCHANGED <<fnVars, toolVars, rollbacks, statuses, printed, url_db_type, rows, clock,
                   cmd, config, dry_run, applied, pending, mi, si, run_log, last, prev,
                   row_log>>

\* Where apply_migration stands when it is entered for a migration: at its first
\* statement, or at the insert when its SQL holds no executable statement.
EnterAt(migration) ==
    IF NextStatement(migration.up_sql, 0) = 0 THEN "record" ELSE "apply"

\* migrate.rs run without the test of args.dry_run (lines 60-67).
FetchAndPlanIgnoresDryRun(r) ==
    /\ pc[r] = "fetch"
    /\ cmd[r] \in {"migrate", "run_pending"}
    /\ \E db_ok \in BOOLEAN :
        IF db_ok /\ MIGRATIONS_TABLE \in schema
        THEN LET fetched == get_applied_migrations(rows)
                 queue == get_pending_migrations(get_migrations_from_config(config[r]),
                                                 fetched)
             IN  /\ applied' = [applied EXCEPT ![r] = fetched]
                 /\ pending' = [pending EXCEPT ![r] = queue]
                 /\ IF queue = <<>>
                    THEN /\ Return(r, Ok)
                         /\ UNCHANGED mi
                    ELSE /\ pc' = [pc EXCEPT ![r] = EnterAt(queue[1])]
                         /\ mi' = [mi EXCEPT ![r] = 1]
                         /\ UNCHANGED result
        ELSE /\ Return(r, DatabaseError)
             /\ UNCHANGED <<applied, pending, mi>>
    /\ UNCHANGED <<fnVars, toolVars, rollbacks, statuses, printed, url_db_type, schema, rows,
                   clock, cmd, config, dry_run, si, run_log, last, prev, row_log>>

\* The fetch and the plan of a runner that waits while another process applies
\* migrations.
FetchAndPlanUnderLock(r) ==
    /\ pc[r] = "fetch"
    /\ \A other \in Runners \ {r} : pc[other] \notin {"apply", "record"}
    /\ cmd[r] \in {"migrate", "run_pending"}
    /\ \E db_ok \in BOOLEAN :
        IF db_ok /\ MIGRATIONS_TABLE \in schema
        THEN LET fetched == get_applied_migrations(rows)
                 queue == get_pending_migrations(get_migrations_from_config(config[r]), fetched)
             IN  /\ applied' = [applied EXCEPT ![r] = fetched]
                 /\ pending' = [pending EXCEPT ![r] = queue]
                 /\ IF queue = <<>> \/ dry_run[r]
                    THEN /\ Return(r, Ok)
                         /\ UNCHANGED mi
                    ELSE /\ pc' = [pc EXCEPT ![r] = EnterAt(queue[1])]
                         /\ mi' = [mi EXCEPT ![r] = 1]
                         /\ UNCHANGED result
        ELSE /\ Return(r, DatabaseError)
             /\ UNCHANGED <<applied, pending, mi>>
    /\ UNCHANGED <<fnVars, toolVars, rollbacks, statuses, printed, url_db_type, schema, rows,
                   clock, cmd, config, dry_run, si, run_log, last, prev, row_log>>

\* migrate.rs lines 47-67 and run_pending lines 209-215: fetch the applied rows,
\* compute the pending queue, and return when there is nothing to apply.
FetchAndPlan(r) ==
    /\ pc[r] = "fetch"
    /\ cmd[r] \in {"migrate", "run_pending"}
    /\ \E db_ok \in BOOLEAN :
        IF db_ok /\ MIGRATIONS_TABLE \in schema
        THEN LET fetched == get_applied_migrations(rows)
                 queue == get_pending_migrations(get_migrations_from_config(config[r]), fetched)
             IN  /\ applied' = [applied EXCEPT ![r] = fetched]
                 /\ pending' = [pending EXCEPT ![r] = queue]
                 /\ IF queue = <<>> \/ dry_run[r]
                    THEN /\ Return(r, Ok)
                         /\ UNCHANGED mi
                    ELSE /\ pc' = [pc EXCEPT ![r] = EnterAt(queue[1])]
                         /\ mi' = [mi EXCEPT ![r] = 1]
                         /\ UNCHANGED result
        ELSE /\ Return(r, DatabaseError)
             /\ UNCHANGED <<applied, pending, mi>>
    /\ UNCHANGED <<fnVars, toolVars, rollbacks, statuses, printed, url_db_type, schema, rows,
                   clock, cmd, config, dry_run, si, run_log, last, prev, row_log>>

Current(r) == pending[r][mi[r]]

\* One entry of the history of a run.
Executed(v, i) == [what |-> "execute", version |-> v, piece |-> i]
Inserted(v) == [what |-> "insert", version |-> v, piece |-> 0]
Refused(v, i) == [what |-> "refused", version |-> v, piece |-> i]

\* The step of a statement that succeeds in a runner that, after the last
\* statement of a migration, goes on to the next migration of the queue and
\* leaves the insert of the row for later.
StatementSucceedsPipelined(r) ==
    /\ pc[r] = "apply"
    /\ LET m == Current(r)
           i == NextStatement(m.up_sql, si[r])
           answer == Execute(schema, url_db_type, StatementAt(m.up_sql, i))
           last_one == NextStatement(m.up_sql, i) = 0
           more == mi[r] < Len(pending[r])
       IN  /\ answer.ok
           /\ schema' = answer.schema
           /\ run_log' = [run_log EXCEPT ![r] = Append(@, Executed(m.version, i))]
           /\ si' = [si EXCEPT ![r] = IF last_one /\ more THEN 0 ELSE i]
           /\ mi' = [mi EXCEPT ![r] = IF last_one /\ more THEN @ + 1 ELSE @]
           /\ pc' = [pc EXCEPT ![r] =
                        IF last_one
                        THEN (IF more THEN EnterAt(pending[r][mi[r] + 1]) ELSE "record")
                        ELSE "apply"]
    /\ UNCHANGED <<fnVars, toolVars, rollbacks, statuses, printed, url_db_type, rows, clock,
                   cmd, config, dry_run, applied, pending, result, last, prev, row_log>>

\* apply_migration lines 140-158, one turn of the loop whose statement succeeds.
StatementSucceeds(r) ==
    /\ pc[r] = "apply"
    /\ LET m == Current(r)
           i == NextStatement(m.up_sql, si[r])
           answer == Execute(schema, url_db_type, StatementAt(m.up_sql, i))
       IN  /\ answer.ok
           /\ schema' = answer.schema
           /\ si' = [si EXCEPT ![r] = i]
           /\ run_log' = [run_log EXCEPT ![r] = Append(@, Executed(m.version, i))]
           /\ pc' = [pc EXCEPT ![r] =
                        IF NextStatement(m.up_sql, i) = 0 THEN "record" ELSE "apply"]
    /\ UNCHANGED <<fnVars, toolVars, rollbacks, statuses, printed, url_db_type, rows, clock,
                   cmd, config, dry_run, applied, pending, mi, result, last, prev,
                   row_log>>

\* apply_migration that drops the error of a statement and goes on with the next.
StatementFailsIgnored(r) ==
    /\ pc[r] = "apply"
    /\ LET m == Current(r)
           i == NextStatement(m.up_sql, si[r])
           answer == Execute(schema, url_db_type, StatementAt(m.up_sql, i))
       IN  \E connection_ok \in BOOLEAN :
             /\ ~answer.ok \/ ~connection_ok
             /\ si' = [si EXCEPT ![r] = i]
             /\ pc' = [pc EXCEPT ![r] =
                          IF NextStatement(m.up_sql, i) = 0 THEN "record" ELSE "apply"]
    /\ UNCHANGED <<fnVars, toolVars, rollbacks, statuses, printed, url_db_type, schema, rows,
                   clock, cmd, config, dry_run, applied, pending, mi, result, run_log,
                   last, prev, row_log>>

\* apply_migration inside a transaction: a failure undoes what the statements of
\* the migration created.
StatementFailsRollsBack(r) ==
    /\ pc[r] = "apply"
    /\ LET m == Current(r)
           i == NextStatement(m.up_sql, si[r])
           answer == Execute(schema, url_db_type, StatementAt(m.up_sql, i))
           undone == {st.obj : st \in {st \in SqlStatements :
                         \E e \in Range(run_log[r]) :
                            /\ e.what = "execute" /\ e.version = m.version
                            /\ StatementAt(m.up_sql, e.piece)[1] = st.head}}
       IN  \E connection_ok \in BOOLEAN :
             /\ ~answer.ok \/ ~connection_ok
             /\ schema' = schema \ undone
             /\ run_log' = [run_log EXCEPT ![r] = Append(@, Refused(m.version, i))]
             /\ Return(r, MigrationError(m.name))
    /\ UNCHANGED <<fnVars, toolVars, rollbacks, statuses, printed, url_db_type, rows, clock,
                   cmd, config, dry_run, applied, pending, mi, si, last, prev,
                   row_log>>

\* apply_migration lines 152-157: the statement fails (the database refuses it,
\* or the connection does) and the error leaves apply_migration and the command.
\* The history keeps the statement as sent and refused.
StatementFails(r) ==
    /\ pc[r] = "apply"
    /\ LET m == Current(r)
           i == NextStatement(m.up_sql, si[r])
           answer == Execute(schema, url_db_type, StatementAt(m.up_sql, i))
       IN  \E connection_ok \in BOOLEAN :
             /\ ~answer.ok \/ ~connection_ok
             /\ run_log' = [run_log EXCEPT ![r] = Append(@, Refused(m.version, i))]
             /\ Return(r, MigrationError(m.name))
    /\ UNCHANGED <<fnVars, toolVars, rollbacks, statuses, printed, url_db_type, schema, rows,
                   clock, cmd, config, dry_run, applied, pending, mi, si, last, prev,
                   row_log>>

\* A row that records the checksum of the text of the rollback.
NewRowOfDownSql(m, now) ==
    [version |-> m.version, name |-> m.name, applied_at |-> now,
     checksum |-> compute_checksum(m.down_sql)]

\* The row record_migration inserts.
NewRow(m, now) ==
    [version |-> m.version, name |-> m.name, applied_at |-> now, checksum |-> m.checksum]

\* The statements of this run that apply_migration executed for version v.
ExecutedFor(log, v) ==
    SelectSeq(log, LAMBDA e : e.what = "execute" /\ e.version = v)

\* apply_migration inside a transaction: when the insert fails, what the
\* statements of the migration created is taken back.
RecordMigrationRollsBack(r) ==
    /\ pc[r] = "record"
    /\ LET m == Current(r)
           done == ExecutedFor(run_log[r], m.version)
           heads == {StatementAt(m.up_sql, done[k].piece)[1] : k \in 1..Len(done)}
           created == {st.obj : st \in {x \in SqlStatements : x.head \in heads}}
       IN
       \E db_ok \in BOOLEAN, now \in clock..MaxClock :
          /\ clock' = now
          /\ IF /\ db_ok
                /\ MIGRATIONS_TABLE \in schema
                /\ \A row \in rows : row.version # m.version
             THEN /\ rows' = rows \cup {NewRow(m, now)}
                  /\ row_log' = {e \in row_log : e.version # m.version}
                                \cup {[version |-> m.version, up_sql |-> m.up_sql,
                                       executed |-> ExecutedFor(run_log[r], m.version)]}
                  /\ run_log' = [run_log EXCEPT ![r] = Append(@, Inserted(m.version))]
                  /\ schema' = schema
                  /\ IF mi[r] = Len(pending[r])
                     THEN /\ Return(r, Ok)
                          /\ UNCHANGED <<mi, si>>
                     ELSE /\ mi' = [mi EXCEPT ![r] = @ + 1]
                          /\ si' = [si EXCEPT ![r] = 0]
                          /\ pc' = [pc EXCEPT ![r] = EnterAt(pending[r][mi[r] + 1])]
                          /\ UNCHANGED result
             ELSE /\ Return(r, DatabaseError)
                  /\ schema' = schema \ created
                  /\ UNCHANGED <<rows, row_log, run_log, mi, si>>
    /\ UNCHANGED <<fnVars, toolVars, rollbacks, statuses, printed, url_db_type, cmd,
                   config, dry_run, applied, pending, last, prev>>

\* record_migration on a tracking table whose version column is not a key.
RecordMigrationWithoutPrimaryKey(r) ==
    /\ pc[r] = "record"
    /\ LET m == Current(r) IN
       \E db_ok \in BOOLEAN, now \in clock..MaxClock :
          /\ clock' = now
          /\ IF /\ db_ok
                /\ MIGRATIONS_TABLE \in schema
             THEN /\ rows' = rows \cup {NewRow(m, now)}
                  /\ row_log' = {e \in row_log : e.version # m.version}
                                \cup {[version |-> m.version, up_sql |-> m.up_sql,
                                       executed |-> ExecutedFor(run_log[r], m.version)]}
                  /\ run_log' = [run_log EXCEPT ![r] = Append(@, Inserted(m.version))]
                  /\ IF mi[r] = Len(pending[r])
                     THEN /\ Return(r, Ok)
                          /\ UNCHANGED <<mi, si>>
                     ELSE /\ mi' = [mi EXCEPT ![r] = @ + 1]
                          /\ si' = [si EXCEPT ![r] = 0]
                          /\ pc' = [pc EXCEPT ![r] = EnterAt(pending[r][mi[r] + 1])]
                          /\ UNCHANGED result
             ELSE /\ Return(r, DatabaseError)
                  /\ UNCHANGED <<rows, row_log, run_log, mi, si>>
    /\ UNCHANGED <<fnVars, toolVars, rollbacks, statuses, printed, url_db_type, schema, cmd,
                   config, dry_run, applied, pending, last, prev>>

\* record_migration, then the next turn of the loop over pending
\* (migrate.rs lines 78-93, run_pending lines 215-218).  The clock is read here
\* and nowhere else, so this is where time is seen to have passed.
RecordMigration(r) ==
    /\ pc[r] = "record"
    /\ LET m == Current(r) IN
       \E db_ok \in BOOLEAN, now \in clock..MaxClock :
          /\ clock' = now
          /\ IF /\ db_ok
                /\ MIGRATIONS_TABLE \in schema
                /\ \A row \in rows : row.version # m.version
             THEN /\ rows' = rows \cup {NewRow(m, now)}
                  /\ row_log' = {e \in row_log : e.version # m.version}
                                \cup {[version |-> m.version, up_sql |-> m.up_sql,
                                       executed |-> ExecutedFor(run_log[r], m.version)]}
                  /\ run_log' = [run_log EXCEPT ![r] = Append(@, Inserted(m.version))]
                  /\ IF mi[r] = Len(pending[r])
                     THEN /\ Return(r, Ok)
                          /\ UNCHANGED <<mi, si>>
                     ELSE /\ mi' = [mi EXCEPT ![r] = @ + 1]
                          /\ si' = [si EXCEPT ![r] = 0]
                          /\ pc' = [pc EXCEPT ![r] = EnterAt(pending[r][mi[r] + 1])]
                          /\ UNCHANGED result
             ELSE /\ Return(r, DatabaseError)
                  /\ UNCHANGED <<rows, row_log, run_log, mi, si>>
    /\ UNCHANGED <<fnVars, toolVars, rollbacks, statuses, printed, url_db_type, schema, cmd,
                   config, dry_run, applied, pending, last, prev>>

\* MigrationRunner::verify_checksums
VerifyStart(r) ==
    \E cfg \in {c \in AuthKitConfig : validate(c)} :
        /\ Begin(r, "verify_checksums", cfg, FALSE, "verify")
        /\ result' = [result EXCEPT ![r] = NoResult]
        /\ UNCHANGED <<pending, mi, rollbacks, toolVars>>

verify_checksums(r) ==
    /\ pc[r] = "verify"
    /\ \E db_ok \in BOOLEAN :
        IF db_ok /\ MIGRATIONS_TABLE \in schema
        THEN LET fetched == get_applied_migrations(rows)
             IN  /\ applied' = [applied EXCEPT ![r] = fetched]
                 /\ Return(r, VerifyLoop(get_migrations_from_config(config[r]), fetched))
        ELSE /\ Return(r, DatabaseError)
             /\ UNCHANGED applied
    /\ UNCHANGED <<fnVars, toolVars, rollbacks, statuses, printed, url_db_type, schema, rows,
                   clock, cmd, config, dry_run, pending, mi, si, run_log, last, prev,
                   row_log>>

\* commands/status.rs run, lines 23-43: load the configuration, connect.
StatusStart(r) ==
    \E cfg \in AuthKitConfig :
        /\ Begin(r, "status", cfg, FALSE, IF validate(cfg) THEN "ensure" ELSE "done")
        /\ result' = [result EXCEPT ![r] = IF validate(cfg) THEN NoResult ELSE ConfigParse]
        /\ UNCHANGED <<pending, mi, rollbacks, toolVars>>

\* The lines status prints below the table.
UP_TO_DATE == [text |-> "Database is up to date", count |-> 0]
NONE_DEFINED == [text |-> "No migrations defined for enabled features", count |-> 0]
PendingLine(n) == [text |-> "pending migration(s)", count |-> n]
MissingLine(n) == [text |-> "migration(s) in database not found in config", count |-> n]

\* The summary of status that does not count the Missing entries.
SummaryWithoutMissing(list) ==
    LET pending_count == Len(SelectSeq(list, LAMBDA e : e.state = "Pending"))
    IN  IF list = <<>> THEN <<NONE_DEFINED>>
        ELSE IF pending_count = 0 THEN <<UP_TO_DATE>>
        ELSE <<PendingLine(pending_count)>>

\* status.rs lines 62-68 and 101-126: what status prints about the list of
\* classified migrations, apart from the table.
Summary(list) ==
    LET pending_count == Len(SelectSeq(list, LAMBDA e : e.state = "Pending"))
        missing_count == Len(SelectSeq(list, LAMBDA e : e.state = "Missing"))
    IN  IF list = <<>> THEN <<NONE_DEFINED>>
        ELSE IF pending_count = 0 /\ missing_count = 0 THEN <<UP_TO_DATE>>
        ELSE (IF pending_count > 0 THEN <<PendingLine(pending_count)>> ELSE <<>>)
             \o (IF missing_count > 0 THEN <<MissingLine(missing_count)>> ELSE <<>>)

\* status.rs lines 45-128: fetch the applied rows, classify, print.
StatusReport(r) ==
    /\ pc[r] = "fetch"
    /\ cmd[r] = "status"
    /\ \E db_ok \in BOOLEAN :
        IF db_ok /\ MIGRATIONS_TABLE \in schema
        THEN LET fetched == get_applied_migrations(rows)
                 list == get_migration_status(get_migrations_from_config(config[r]),
                                              fetched)
             IN  /\ applied' = [applied EXCEPT ![r] = fetched]
                 /\ statuses' = [statuses EXCEPT ![r] = list]
                 /\ printed' = [printed EXCEPT ![r] = Summary(list)]
                 /\ Return(r, Ok)
        ELSE /\ Return(r, DatabaseError)
             /\ UNCHANGED <<applied, statuses, printed>>
    /\ UNCHANGED <<fnVars, toolVars, rollbacks, url_db_type, schema, rows, clock, cmd,
                   config, dry_run, pending, mi, si, run_log, last, prev, row_log>>

\* Where rollback_migration stands when it is entered: at the first statement
\* of down_sql, or at the delete when down_sql holds no executable statement.
EnterRollbackAt(migration) ==
    IF NextStatement(migration.down_sql, 0) = 0 THEN "unrecord" ELSE "undo"

\* MigrationRunner::rollback_migration is called with a migration of the
\* catalogue of a configuration.
RollbackStart(r) ==
    \E cfg \in {c \in AuthKitConfig : validate(c)} :
      \E k \in 1..Len(get_migrations_from_config(cfg)) :
        LET m == get_migrations_from_config(cfg)[k] IN
        /\ rollbacks < MaxRollbacks
        /\ rollbacks' = rollbacks + 1
        /\ Begin(r, "rollback_migration", cfg, FALSE, EnterRollbackAt(m))
        /\ pending' = [pending EXCEPT ![r] = <<m>>]
        /\ mi' = [mi EXCEPT ![r] = 1]
        /\ result' = [result EXCEPT ![r] = NoResult]
        /\ UNCHANGED toolVars

\* rollback_migration lines 251-271, one turn of the loop whose statement succeeds.
RollbackStatementSucceeds(r) ==
    /\ pc[r] = "undo"
    /\ LET m == Current(r)
           i == NextStatement(m.down_sql, si[r])
           answer == Execute(schema, url_db_type, StatementAt(m.down_sql, i))
       IN  /\ answer.ok
           /\ schema' = answer.schema
           /\ si' = [si EXCEPT ![r] = i]
           /\ run_log' = [run_log EXCEPT ![r] = Append(@, Executed(m.version, i))]
           /\ pc' = [pc EXCEPT ![r] =
                        IF NextStatement(m.down_sql, i) = 0 THEN "unrecord" ELSE "undo"]
    /\ UNCHANGED <<fnVars, toolVars, rollbacks, statuses, printed, url_db_type, rows, clock,
                   cmd, config, dry_run, applied, pending, mi, result, last, prev,
                   row_log>>


\* The failing statement of a rollback that deletes the tracking row all the same.
RollbackStatementFailsUnrecords(r) ==
    /\ pc[r] = "undo"
    /\ LET m == Current(r)
           i == NextStatement(m.down_sql, si[r])
           answer == Execute(schema, url_db_type, StatementAt(m.down_sql, i))
       IN  \E connection_ok \in BOOLEAN :
             /\ ~answer.ok \/ ~connection_ok
             /\ run_log' = [run_log EXCEPT ![r] = Append(@, Refused(m.version, i))]
             /\ rows' = {row \in rows : row.version # m.version}
             /\ Return(r, MigrationError(m.name))
    /\ UNCHANGED <<fnVars, toolVars, rollbacks, statuses, printed, url_db_type, schema,
                   clock, cmd, config, dry_run, applied, pending, mi, si, last, prev,
                   row_log>>

\* rollback_migration lines 265-270: the statement fails and the error leaves
\* rollback_migration.
RollbackStatementFails(r) ==
    /\ pc[r] = "undo"
    /\ LET m == Current(r)
           i == NextStatement(m.down_sql, si[r])
           answer == Execute(schema, url_db_type, StatementAt(m.down_sql, i))
       IN  \E connection_ok \in BOOLEAN :
             /\ ~answer.ok \/ ~connection_ok
             /\ run_log' = [run_log EXCEPT ![r] = Append(@, Refused(m.version, i))]
             /\ Return(r, MigrationError(m.name))
    /\ UNCHANGED <<fnVars, toolVars, rollbacks, statuses, printed, url_db_type, schema, rows,
                   clock, cmd, config, dry_run, applied, pending, mi, si, last, prev,
                   row_log>>

\* The DELETE of the rows of version v, which deleted n rows.
Deleted(v, n) == [what |-> "delete", version |-> v, piece |-> 0, affected |-> n]

\* remove_migration_record whose DELETE has no WHERE clause.
RemoveMigrationRecordEveryRow(r) ==
    /\ pc[r] = "unrecord"
    /\ LET m == Current(r) IN
       \E db_ok \in BOOLEAN :
          IF db_ok /\ MIGRATIONS_TABLE \in schema
          THEN /\ rows' = {}
               /\ row_log' = {}
               /\ run_log' = [run_log EXCEPT ![r] =
                                 Append(@, Deleted(m.version, Cardinality(rows)))]
               /\ Return(r, Ok)
          ELSE /\ Return(r, DatabaseError)
               /\ UNCHANGED <<rows, row_log, run_log>>
    /\ UNCHANGED <<fnVars, toolVars, rollbacks, statuses, printed, url_db_type, schema, clock,
                   cmd, config, dry_run, applied, pending, mi, si, last, prev>>

\* remove_migration_record: DELETE FROM _authkit_migrations WHERE version = $1
RemoveMigrationRecord(r) ==
    /\ pc[r] = "unrecord"
    /\ LET m == Current(r) IN
       \E db_ok \in BOOLEAN :
          IF db_ok /\ MIGRATIONS_TABLE \in schema
          THEN /\ rows' = {row \in rows : row.version # m.version}
               /\ row_log' = {e \in row_log : e.version # m.version}
               /\ run_log' = [run_log EXCEPT ![r] =
                     Append(@, Deleted(m.version,
                                       Cardinality({row \in rows :
                                                      row.version = m.version})))]
               /\ Return(r, Ok)
          ELSE /\ Return(r, DatabaseError)
               /\ UNCHANGED <<rows, row_log, run_log>>
    /\ UNCHANGED <<fnVars, toolVars, rollbacks, statuses, printed, url_db_type, schema, clock,
                   cmd, config, dry_run, applied, pending, mi, si, last, prev>>

(***************************************************************************)
(* commands/generate.rs                                                    *)
(***************************************************************************)
FileExists(path) == [kind |-> "FileExists", path |-> path]
\* CliError::Io(e), by the ? operator
IoError == [kind |-> "Io"]
Written(v, path) == [what |-> "write", version |-> v, piece |-> 0, path |-> path]

\* generate.rs run, lines 11-27: load the configuration, build the catalogue,
\* create the output directory.
GenerateStart(r) ==
    \E cfg \in AuthKitConfig, overwrite \in BOOLEAN, io_ok \in BOOLEAN :
        /\ Begin(r, "generate", cfg, FALSE,
                 IF validate(cfg) /\ io_ok THEN "check" ELSE "done")
        /\ result' = [result EXCEPT ![r] =
                        IF ~validate(cfg) THEN ConfigParse
                        ELSE IF ~io_ok THEN IoError ELSE NoResult]
        /\ pending' = [pending EXCEPT ![r] =
                         IF validate(cfg) /\ io_ok THEN get_migrations_from_config(cfg)
                         ELSE <<>>]
        /\ mi' = [mi EXCEPT ![r] = IF validate(cfg) /\ io_ok THEN 1 ELSE 0]
        /\ force' = [force EXCEPT ![r] = overwrite]
        /\ UNCHANGED <<files, to_drop, destroys, rollbacks>>

\* generate.rs lines 51-58 with the test of down_path left out.
GenerateCheckUpOnly(r) ==
    /\ pc[r] = "check"
    /\ LET m == Current(r) IN
       IF ~force[r] /\ files[up_path(m)] # None
       THEN Return(r, FileExists(up_path(m)))
       ELSE /\ pc' = [pc EXCEPT ![r] = "write_up"]
            /\ UNCHANGED result
    /\ UNCHANGED <<fnVars, toolVars, rollbacks, statuses, printed, url_db_type, schema, rows,
                   clock, cmd, config, dry_run, applied, pending, mi, si, run_log, last,
                   prev, row_log>>

\* generate.rs lines 43-58: the paths of the migration in hand and, without
\* --force, the refusal when one of them exists.
GenerateCheck(r) ==
    /\ pc[r] = "check"
    /\ LET m == Current(r) IN
       IF ~force[r] /\ files[up_path(m)] # None
       THEN Return(r, FileExists(up_path(m)))
       ELSE IF ~force[r] /\ files[down_path(m)] # None
       THEN Return(r, FileExists(down_path(m)))
       ELSE /\ pc' = [pc EXCEPT ![r] = "write_up"]
            /\ UNCHANGED result
    /\ UNCHANGED <<fnVars, toolVars, rollbacks, statuses, printed, url_db_type, schema, rows,
                   clock, cmd, config, dry_run, applied, pending, mi, si, run_log, last,
                   prev, row_log>>

\* generate.rs line 61: fs::write(&up_path, migration.up_sql)?
GenerateWriteUp(r) ==
    /\ pc[r] = "write_up"
    /\ LET m == Current(r) IN
       \E io_ok \in BOOLEAN :
          IF io_ok
          THEN /\ files' = [files EXCEPT ![up_path(m)] = Some(m.up_sql)]
               /\ run_log' = [run_log EXCEPT ![r] =
                                 Append(@, Written(m.version, up_path(m)))]
               /\ pc' = [pc EXCEPT ![r] = "write_down"]
               /\ UNCHANGED result
          ELSE /\ Return(r, IoError)
               /\ UNCHANGED <<files, run_log>>
    /\ UNCHANGED <<fnVars, force, to_drop, destroys, rollbacks, statuses, printed, url_db_type,
                   schema, rows, clock, cmd, config, dry_run, applied, pending, mi, si,
                   last, prev, row_log>>

\* generate.rs lines 62-66: fs::write(&down_path, migration.down_sql)?, then the
\* next migration or the end of the loop.
GenerateWriteDown(r) ==
    /\ pc[r] = "write_down"
    /\ LET m == Current(r) IN
       \E io_ok \in BOOLEAN :
          IF io_ok
          THEN /\ files' = [files EXCEPT ![down_path(m)] = Some(m.down_sql)]
               /\ run_log' = [run_log EXCEPT ![r] =
                                 Append(@, Written(m.version, down_path(m)))]
               /\ IF mi[r] < Len(pending[r])
                  THEN /\ mi' = [mi EXCEPT ![r] = @ + 1]
                       /\ pc' = [pc EXCEPT ![r] = "check"]
                       /\ UNCHANGED result
                  ELSE /\ Return(r, Ok)
                       /\ UNCHANGED mi
          ELSE /\ Return(r, IoError)
               /\ UNCHANGED <<files, run_log, mi>>
    /\ UNCHANGED <<fnVars, force, to_drop, destroys, rollbacks, statuses, printed, url_db_type,
                   schema, rows, clock, cmd, config, dry_run, applied, pending, si,
                   last, prev, row_log>>

\* Between two commands the user writes a file of the output directory by hand.
UserWrites(r) ==
    /\ pc[r] = "idle"
    /\ \E path \in Paths : files' = [files EXCEPT ![path] = Some(EDITED)]
    /\ UNCHANGED <<fnVars, force, to_drop, destroys, rollbacks, statuses, printed, url_db_type,
                   schema, rows, clock, pc, cmd, config, dry_run, applied, pending, mi,
                   si, result, run_log, last, prev, row_log>>

(***************************************************************************)
(* commands/destroy.rs                                                     *)
(***************************************************************************)
MaxDestroys == 1

\* AUTHKIT_TABLES without the tracking table.
AUTHKIT_TABLES_WITHOUT_TRACKING == <<"tokens", "sessions", "users">>

AUTHKIT_TABLES == <<"tokens", "sessions", "users", "_authkit_migrations">>

Cancelled == [kind |-> "Cancelled"]
Prompted(answer) == [what |-> "prompt", version |-> 0, piece |-> 0, answer |-> answer]
\* The DROP of table t, which held n rows.
Dropped(t, n) == [what |-> "drop", version |-> 0, piece |-> 0, table |-> t, rows |-> n]

\* destroy.rs run, line 11: connect; destroy loads no configuration.
DestroyStart(r) ==
    \E forced \in BOOLEAN, db_ok \in BOOLEAN :
        /\ destroys < MaxDestroys
        /\ destroys' = destroys + 1
        /\ Begin(r, "destroy", NoConfig, FALSE, IF db_ok THEN "scan" ELSE "done")
        /\ result' = [result EXCEPT ![r] = IF db_ok THEN NoResult ELSE DatabaseError]
        /\ force' = [force EXCEPT ![r] = forced]
        /\ UNCHANGED <<pending, mi, files, to_drop, rollbacks>>

\* destroy.rs lines 24-39 that asks for the confirmation before it looks at
\* tables_to_drop.
DestroyScanAlwaysAsks(r) ==
    /\ pc[r] = "scan"
    /\ \E db_ok \in BOOLEAN :
        IF db_ok
        THEN LET found == SelectSeq(AUTHKIT_TABLES, LAMBDA t : Table(t) \in schema)
             IN  /\ to_drop' = [to_drop EXCEPT ![r] = found]
                 /\ pc' = [pc EXCEPT ![r] = IF force[r] THEN "drop" ELSE "confirm"]
                 /\ UNCHANGED result
        ELSE /\ Return(r, DatabaseError)
             /\ UNCHANGED to_drop
    /\ UNCHANGED <<fnVars, files, force, destroys, rollbacks, statuses, printed, url_db_type,
                   schema, rows, clock, cmd, config, dry_run, applied, pending, mi, si,
                   run_log, last, prev, row_log>>

\* destroy.rs lines 24-39: table_exists for each known table, in order; with
\* nothing to drop the command returns.
DestroyScan(r) ==
    /\ pc[r] = "scan"
    /\ \E db_ok \in BOOLEAN :
        IF db_ok
        THEN LET found == SelectSeq(AUTHKIT_TABLES, LAMBDA t : Table(t) \in schema)
             IN  /\ to_drop' = [to_drop EXCEPT ![r] = found]
                 /\ IF found = <<>>
                    THEN Return(r, Ok)
                    ELSE /\ pc' = [pc EXCEPT ![r] = IF force[r] THEN "drop" ELSE "confirm"]
                         /\ UNCHANGED result
        ELSE /\ Return(r, DatabaseError)
             /\ UNCHANGED to_drop
    /\ UNCHANGED <<fnVars, files, force, destroys, rollbacks, statuses, printed, url_db_type,
                   schema, rows, clock, cmd, config, dry_run, applied, pending, mi, si,
                   run_log, last, prev, row_log>>

\* destroy.rs lines 44-56 where a declined confirmation is an error.
DestroyConfirmDeclinedFails(r) ==
    /\ pc[r] = "confirm"
    /\ \E answer \in {"yes", "no", "error"} :
        /\ run_log' = [run_log EXCEPT ![r] = Append(@, Prompted(answer))]
        /\ IF answer = "yes"
           THEN /\ pc' = [pc EXCEPT ![r] = "drop"]
                /\ UNCHANGED result
           ELSE Return(r, Cancelled)
    /\ UNCHANGED <<fnVars, toolVars, rollbacks, statuses, printed, url_db_type, schema, rows,
                   clock, cmd, config, dry_run, applied, pending, mi, si, last, prev,
                   row_log>>

\* destroy.rs lines 44-56: the confirmation; the prompt itself can fail.
DestroyConfirm(r) ==
    /\ pc[r] = "confirm"
    /\ \E answer \in {"yes", "no", "error"} :
        /\ run_log' = [run_log EXCEPT ![r] = Append(@, Prompted(answer))]
        /\ IF answer = "yes"
           THEN /\ pc' = [pc EXCEPT ![r] = "drop"]
                /\ UNCHANGED result
           ELSE IF answer = "no" THEN Return(r, Ok)
           ELSE Return(r, Cancelled)
    /\ UNCHANGED <<fnVars, toolVars, rollbacks, statuses, printed, url_db_type, schema, rows,
                   clock, cmd, config, dry_run, applied, pending, mi, si, last, prev,
                   row_log>>

\* destroy.rs lines 61-70, one turn of the loop: drop_table of the next table of
\* tables_to_drop; the rows of a table go with it.
DestroyDrop(r) ==
    /\ pc[r] = "drop"
    /\ LET t == to_drop[r][si[r] + 1] IN
       \E db_ok \in BOOLEAN :
          IF db_ok
          THEN /\ schema' = drop_table(schema, url_db_type, t).schema
               /\ rows' = IF Table(t) = MIGRATIONS_TABLE THEN {} ELSE rows
               /\ row_log' = IF Table(t) = MIGRATIONS_TABLE THEN {} ELSE row_log
               /\ run_log' = [run_log EXCEPT ![r] =
                     Append(@, Dropped(t, IF Table(t) = MIGRATIONS_TABLE
                                          THEN Cardinality(rows) ELSE 0))]
               /\ si' = [si EXCEPT ![r] = @ + 1]
               /\ IF si[r] + 1 = Len(to_drop[r])
                  THEN Return(r, Ok)
                  ELSE UNCHANGED <<pc, result>>
          ELSE /\ Return(r, DatabaseError)
               /\ UNCHANGED <<schema, rows, row_log, run_log, si>>
    /\ UNCHANGED <<fnVars, toolVars, rollbacks, statuses, printed, url_db_type, clock, cmd,
                   config, dry_run, applied, pending, mi, last, prev>>

\* The process is killed between two operations on the database.
Interrupt(r) ==
    /\ pc[r] \notin {"idle", "done"}
    /\ Return(r, Interrupted)
    /\ UNCHANGED <<fnVars, toolVars, rollbacks, statuses, printed, url_db_type, schema, rows,
                   clock, cmd, config, dry_run, applied, pending, mi, si, run_log,
                   last, prev, row_log>>

Step(r) ==
    \/ MigrateStart(r)
    \/ RunPendingStart(r)
    \/ EnsureMigrationsTable(r)
    \/ FetchAndPlan(r)
    \/ StatementSucceeds(r)
    \/ StatementFails(r)
    \/ RecordMigration(r)
    \/ VerifyStart(r)
    \/ verify_checksums(r)
    \/ StatusStart(r)
    \/ StatusReport(r)
    \/ Interrupt(r)
    \/ Exit(r)

Next == Step(Main)

Spec == Init /\ [][Next]_vars

\* The commands together with rollback_migration, which no command calls.
StepRollback(r) ==
    \/ RollbackStart(r)
    \/ RollbackStatementSucceeds(r)
    \/ RollbackStatementFails(r)
    \/ RemoveMigrationRecord(r)

\* rollback_migration is called after the commands: once it has been called,
\* only it and the commands that read the tracking table run.
NextRollback ==
    \/ rollbacks = 0 /\ Next
    \/ rollbacks > 0 /\ \/ StatusStart(Main) \/ VerifyStart(Main)
                        \/ EnsureMigrationsTable(Main) \/ StatusReport(Main)
                        \/ verify_checksums(Main) \/ Interrupt(Main) \/ Exit(Main)
    \/ StepRollback(Main)

\* The generate command alone: it works on files, not on the database.
NextGenerate ==
    \/ GenerateStart(Main)
    \/ GenerateCheck(Main)
    \/ GenerateWriteUp(Main)
    \/ GenerateWriteDown(Main)
    \/ UserWrites(Main)
    \/ Interrupt(Main)
    \/ Exit(Main)

InitRollback ==
    /\ InitSystem
    /\ fn_available = <<>>
    /\ fn_applied = <<>>
    /\ fn_result = NotCalled

SpecRollback == InitRollback /\ [][NextRollback]_vars

SpecGenerate == InitRollback /\ [][NextGenerate]_vars

StepDestroy(r) ==
    \/ DestroyStart(r)
    \/ DestroyScan(r)
    \/ DestroyConfirm(r)
    \/ DestroyDrop(r)

\* The commands that work on the database, destroy among them.
NextDestroy == Next \/ StepDestroy(Main)

SpecDestroy == InitRollback /\ [][NextDestroy]_vars

\* The configuration file is not edited between the commands: every command
\* loads the configuration written for the database, with both features on.
FixedConfig ==
    [db_type |-> url_db_type, email_password |-> TRUE, email_verification |-> TRUE]

\* The command that starts loads that configuration.
LoadsFixedConfig == config'[Main] = FixedConfig

\* The commands and rollback_migration in any order, a migrate after a
\* rollback too.
NextFixedConfig ==
    \/ MigrateStart(Main) /\ LoadsFixedConfig
    \/ RunPendingStart(Main) /\ LoadsFixedConfig
    \/ VerifyStart(Main) /\ LoadsFixedConfig
    \/ StatusStart(Main) /\ LoadsFixedConfig
    \/ RollbackStart(Main) /\ LoadsFixedConfig
    \/ EnsureMigrationsTable(Main)
    \/ FetchAndPlan(Main)
    \/ StatementSucceeds(Main)
    \/ StatementFails(Main)
    \/ RecordMigration(Main)
    \/ verify_checksums(Main)
    \/ StatusReport(Main)
    \/ RollbackStatementSucceeds(Main)
    \/ RollbackStatementFails(Main)
    \/ RemoveMigrationRecord(Main)
    \/ Interrupt(Main)
    \/ Exit(Main)

SpecFixedConfig == InitRollback /\ [][NextFixedConfig]_vars

\* Two processes run migrate against the same database, each once; nothing in
\* migrate.rs or runner.rs makes one wait for the other, so their steps
\* interleave freely.
StepConcurrent(r) ==
    \/ last[r] = NoRun /\ MigrateStart(r)
    \/ EnsureMigrationsTable(r)
    \/ FetchAndPlan(r)
    \/ StatementSucceeds(r)
    \/ StatementFails(r)
    \/ RecordMigration(r)
    \/ Exit(r)

NextConcurrent == \E r \in Runners : StepConcurrent(r)

SpecConcurrent == InitRollback /\ [][NextConcurrent]_vars

(***************************************************************************)
(* The functions of the runner called alone, on any catalogue and any      *)
(* applied rows with unique versions.                                      *)
(***************************************************************************)
\* The greatest version of the catalogues and rows drawn.
MaxVersion == 3

\* The digest of the catalogue entry of version v, and the digest of a row that
\* was recorded from another text.
DigestOf(v) == HexEncode(v)
Drifted == HexEncode(255)

\* The sequences without repetition over a set.
RECURSIVE Arrangements(_)
Arrangements(S) ==
    {<<>>} \cup UNION {{<<x>> \o t : t \in Arrangements(S \ {x})} : x \in S}

CatalogueInputs ==
    {[i \in 1..Len(vs) |->
        [version |-> vs[i], name |-> <<"catalogue", vs[i]>>, checksum |-> DigestOf(vs[i])]]
     : vs \in Arrangements(1..MaxVersion)}

AppliedInputs ==
    UNION {
      {[i \in 1..Len(vs) |->
          [version |-> vs[i], name |-> <<"row", vs[i]>>, applied_at |-> 100 + vs[i],
           checksum |-> IF vs[i] \in drift THEN Drifted ELSE DigestOf(vs[i])]]
       : drift \in SUBSET Range(vs)}
      : vs \in Arrangements(1..MaxVersion)}

InitFn ==
    /\ InitSystem
    /\ url_db_type = "sqlite"
    /\ fn_available \in CatalogueInputs
    /\ fn_applied \in AppliedInputs
    /\ fn_result = NotCalled

systemVars == <<url_db_type, schema, rows, clock, pc, cmd, config, dry_run, applied,
                pending, mi, si, result, statuses, printed, run_log, last, prev,
                row_log, rollbacks, toolVars>>

CallStatus ==
    /\ fn_result' = [op |-> "get_migration_status",
                     out |-> get_migration_status(fn_available, fn_applied)]
    /\ UNCHANGED <<fn_available, fn_applied, systemVars>>

CallPending ==
    /\ fn_result' = [op |-> "get_pending_migrations",
                     out |-> get_pending_migrations(fn_available, fn_applied)]
    /\ UNCHANGED <<fn_available, fn_applied, systemVars>>

\* verify_checksums lines 227-244 on the rows as get_applied_migrations returns
\* them (ORDER BY version).
CallVerify ==
    /\ fn_result' = [op |-> "verify_checksums",
                     out |-> VerifyLoop(fn_available,
                                        get_applied_migrations(Range(fn_applied)))]
    /\ UNCHANGED <<fn_available, fn_applied, systemVars>>

NextFn == CallStatus \/ CallPending \/ CallVerify

SpecFn == InitFn /\ [][NextFn]_vars

(***************************************************************************)
(* Properties of the functions called alone (SpecFn)                       *)
(***************************************************************************)
InCatalogue == Versions(fn_available)
InRows == Versions(fn_applied)
RowOf(v) == CHOOSE a \in Range(fn_applied) : a.version = v
EntryOf(v) == CHOOSE m \in Range(fn_available) : m.version = v

\* C2 (diff completeness): get_migration_status returns every version of the
\* catalogue and of the applied rows exactly once and no other version, as
\* Applied iff it is in both, Pending iff it is in the catalogue only, Missing
\* iff it is in the applied rows only.
C2_DiffComplete ==
    fn_result.op = "get_migration_status" =>
        LET out == fn_result.out IN
        /\ \A v \in InCatalogue \cup InRows :
              Cardinality({i \in 1..Len(out) : out[i].version = v}) = 1
        /\ \A i \in 1..Len(out) :
              LET v == out[i].version IN
              /\ v \in InCatalogue \cup InRows
              /\ out[i].state = "Applied" <=> v \in InCatalogue \cap InRows
              /\ out[i].state = "Pending" <=> v \in InCatalogue \ InRows
              /\ out[i].state = "Missing" <=> v \in InRows \ InCatalogue

\* A diff with an Applied, a Pending and a Missing entry.
C2_Witness ==
    /\ fn_result.op = "get_migration_status"
    /\ \A st \in {"Applied", "Pending", "Missing"} :
          \E i \in 1..Len(fn_result.out) : fn_result.out[i].state = st

\* The versions of the applied rows that the catalogue holds with another digest.
DriftedVersions ==
    {v \in InCatalogue \cap InRows : RowOf(v).checksum # EntryOf(v).checksum}

\* C9 (checksum drift detection): verify_checksums fails iff some applied row of
\* a catalogue version records a digest D1 other than the catalogue's digest D2;
\* the error names the least such version, D1 as expected and D2 as actual;
\* otherwise it returns success.
C9_DriftDetected ==
    fn_result.op = "verify_checksums" =>
        IF DriftedVersions = {} THEN fn_result.out = Ok
        ELSE LET v == CHOOSE v \in DriftedVersions : \A w \in DriftedVersions : v <= w
             IN  fn_result.out =
                    ChecksumMismatch(v, RowOf(v).checksum, EntryOf(v).checksum)

\* Two rows have drifted, the rows were inserted in another order than by
\* version, and the mismatch is reported.
C9_Witness ==
    /\ fn_result.op = "verify_checksums"
    /\ fn_result.out.kind = "ChecksumMismatch"
    /\ Cardinality(DriftedVersions) >= 2
    /\ \E i \in 1..Len(fn_applied) : \E j \in 1..Len(fn_applied) :
          i < j /\ fn_applied[i].version > fn_applied[j].version

\* C10: verify_checksums reports no error because of a Missing row: an error
\* names a version of the catalogue, and when every row of a catalogue version
\* records the catalogue's digest the result is success whatever the Missing rows
\* record.
C10_MissingNotChecked ==
    fn_result.op = "verify_checksums" =>
        /\ fn_result.out.kind = "ChecksumMismatch" => fn_result.out.version \in InCatalogue
        /\ (\A v \in InCatalogue \cap InRows : RowOf(v).checksum = EntryOf(v).checksum)
              => fn_result.out = Ok

\* A Missing row with a digest of its own, rows of the catalogue that match, and
\* success.
C10_Witness ==
    /\ fn_result.op = "verify_checksums"
    /\ fn_result.out = Ok
    /\ InCatalogue \cap InRows # {}
    /\ \E v \in InRows \ InCatalogue : RowOf(v).checksum = Drifted

(***************************************************************************)
(* Properties of the commands (Spec)                                       *)
(***************************************************************************)
RowVersions == {row.version : row \in rows}
Migrating == cmd[Main] \in {"migrate", "run_pending"}
InsertsOf(log) == SelectSeq(log, LAMBDA e : e.what = "insert")
SentOf(log) == SelectSeq(log, LAMBDA e : e.what \in {"execute", "refused"})
\* What the runner would find pending now, with the configuration of the command.
PendingNow ==
    get_pending_migrations(get_migrations_from_config(config[Main]),
                           get_applied_migrations(rows))
\* The command has computed its queue.
Planned ==
    \/ pc[Main] \in {"apply", "record"}
    \/ pc[Main] = "done" /\ (mi[Main] >= 1 \/ result[Main] = Ok)
\* The effect of a statement that succeeded is in the database.
StatementHolds(sql) ==
    \E st \in SqlStatements :
        /\ st.head = sql[1]
        /\ IF st.op = "create" THEN st.obj \in schema ELSE st.obj \notin schema

\* C1 (never falsely applied): in every reachable state, after statement
\* failures and interruptions too, a tracking row for version v exists only if
\* one call of apply_migration for the migration of version v executed every
\* executable statement of its up_sql, in order and each with success, before
\* it inserted the row.
C1_NeverFalselyApplied ==
    \A row \in rows :
        \E e \in row_log :
            /\ e.version = row.version
            /\ {e.executed[k].piece : k \in 1..Len(e.executed)}
                  = {i \in 1..Len(PiecesOf(e.up_sql)) : PiecesOf(e.up_sql)[i] # <<>>}
            /\ \A k \in 1..(Len(e.executed) - 1) :
                  e.executed[k].piece < e.executed[k + 1].piece

\* A run recorded one migration and then failed in a statement of the next.
C1_Witness ==
    /\ Migrating /\ pc[Main] = "done" /\ result[Main].kind = "Migration"
    /\ InsertsOf(run_log[Main]) # <<>>
    /\ ExecutedFor(run_log[Main], Current(Main).version) # <<>>
    /\ rows # {}

\* C3 (partial failure is not atomic): when a statement of a migration fails
\* after earlier statements of it succeeded (the claim's case: the second of
\* two), the effects of the earlier statements stay in the database, the error is
\* returned, no tracking row is inserted for the migration, and the migration is
\* still pending.
C3_PartialFailure ==
    (Migrating /\ pc[Main] = "done" /\ result[Main].kind = "Migration") =>
        LET m == Current(Main)
            earlier == ExecutedFor(run_log[Main], m.version)
        IN  /\ result[Main] = MigrationError(m.name)
            /\ \A k \in 1..Len(earlier) :
                  StatementHolds(StatementAt(m.up_sql, earlier[k].piece))
            /\ m.version \notin RowVersions
            /\ \E i \in 1..Len(PendingNow) : PendingNow[i] = m

\* The first statement of a migration succeeded and the second failed.
C3_Witness ==
    /\ Migrating /\ pc[Main] = "done" /\ result[Main].kind = "Migration"
    /\ Len(ExecutedFor(run_log[Main], Current(Main).version)) = 1
    /\ NextStatement(Current(Main).up_sql, si[Main]) # 0

\* C4 (idempotence of apply): after a migrate run applied its queue with
\* success the pending list is empty, and a second migrate run with the same
\* catalogue executes no statement, inserts no row and does not fail for want of
\* pending work (it ends with success unless the connection fails or the process
\* is interrupted first).
C4_Idempotent ==
    /\ (Migrating /\ pc[Main] = "done" /\ result[Main] = Ok /\ ~dry_run[Main])
          => PendingNow = <<>>
    /\ (Migrating /\ prev[Main] = "repeat") =>
          /\ run_log[Main] = <<>>
          /\ pending[Main] = <<>>
          /\ pc[Main] \notin {"apply", "record"}
          /\ pc[Main] = "done" => result[Main].kind \in {"Ok", "Database", "Interrupted"}
          /\ Planned => result[Main] = Ok

\* The second run found rows of the first and ended with success.
C4_Witness ==
    /\ Migrating /\ prev[Main] = "repeat" /\ ~dry_run[Main]
    /\ pc[Main] = "done" /\ result[Main] = Ok
    /\ Len(applied[Main]) = 2

\* C5 (fresh database): with no tracking row the pending queue is the whole
\* catalogue in ascending version order, and after all of it is applied
\* get_applied_migrations returns exactly one row per catalogue migration, in
\* ascending version order.
C5_FreshDatabase ==
    (Migrating /\ Planned /\ applied[Main] = <<>>) =>
        LET catalogue == get_migrations_from_config(config[Main])
            got == get_applied_migrations(rows)
        IN  /\ pending[Main] = catalogue
            /\ \A i \in 1..(Len(pending[Main]) - 1) :
                  pending[Main][i].version < pending[Main][i + 1].version
            /\ (pc[Main] = "done" /\ result[Main] = Ok /\ ~dry_run[Main]) =>
                  /\ Len(got) = Len(catalogue)
                  /\ \A i \in 1..Len(got) :
                        /\ got[i].version = catalogue[i].version
                        /\ got[i].name = catalogue[i].name
                        /\ got[i].checksum = catalogue[i].checksum
                  /\ \A i \in 1..(Len(got) - 1) : got[i].version < got[i + 1].version

\* A fresh database, a catalogue of two migrations, all applied.
C5_Witness ==
    /\ Migrating /\ pc[Main] = "done" /\ result[Main] = Ok /\ ~dry_run[Main]
    /\ applied[Main] = <<>>
    /\ Len(pending[Main]) = 2
    /\ Cardinality(rows) = 2

\* C6 (ordering): the tracking rows a run inserts are inserted in strictly
\* increasing version order.
C6_InsertsAscending ==
    Migrating =>
        LET ins == InsertsOf(run_log[Main])
        IN  \A i \in 1..(Len(ins) - 1) : ins[i].version < ins[i + 1].version

\* A run inserted two rows.
C6_Witness ==
    /\ Migrating
    /\ Len(InsertsOf(run_log[Main])) = 2

\* C7 (failure aborts the queue): once apply_migration fails for a pending
\* migration, in a statement or in the insert of its row, the run has executed
\* no statement and inserted no row of a later pending migration, no row of the
\* failing one, the rows of the migrations applied before it remain, and the
\* error returned names the failing migration.
C7_FailureAbortsQueue ==
    (Migrating /\ pc[Main] = "done" /\ mi[Main] >= 1
        /\ result[Main].kind \in {"Migration", "Database"}) =>
        LET m == Current(Main)
            queue == pending[Main]
        IN  /\ \A e \in Range(run_log[Main]) :
                  \E k \in 1..mi[Main] : queue[k].version = e.version
            /\ \A e \in Range(InsertsOf(run_log[Main])) : e.version # m.version
            /\ \A k \in 1..(mi[Main] - 1) : queue[k].version \in RowVersions
            /\ result[Main] = MigrationError(m.name)

\* The same without the last clause: what holds when the insert fails too.
C7_QueueAborted ==
    (Migrating /\ pc[Main] = "done" /\ mi[Main] >= 1
        /\ result[Main].kind \in {"Migration", "Database"}) =>
        LET m == Current(Main)
            queue == pending[Main]
        IN  /\ \A e \in Range(run_log[Main]) :
                  \E k \in 1..mi[Main] : queue[k].version = e.version
            /\ \A e \in Range(InsertsOf(run_log[Main])) : e.version # m.version
            /\ \A k \in 1..(mi[Main] - 1) : queue[k].version \in RowVersions
            /\ result[Main].kind = "Migration" => result[Main] = MigrationError(m.name)

\* C8 (resume after failure): a migrate run that follows a failed or interrupted
\* one sends no statement of a migration recorded in the tracking table, and the
\* first statement it sends is the first statement of the pending migration of
\* the lowest version: a migration executed in part is retried from the top.
C8_ResumeFromTop ==
    (Migrating /\ SentOf(run_log[Main]) # <<>>) =>
        LET first == SentOf(run_log[Main])[1]
            recorded == Versions(applied[Main])
            open == {m \in Range(get_migrations_from_config(config[Main])) :
                        m.version \notin recorded}
            lowest == CHOOSE m \in open : \A o \in open : m.version <= o.version
        IN  /\ \A e \in Range(run_log[Main]) :
                  e.what # "insert" => e.version \notin recorded
            /\ first.version = lowest.version
            /\ PiecesOf(lowest.up_sql)[first.piece] # <<>>
            /\ \A k \in 1..(first.piece - 1) : PiecesOf(lowest.up_sql)[k] = <<>>

\* The run before failed, this one found a recorded migration and a migration
\* part of whose objects exist, and has executed its first statement.
C8_Witness ==
    /\ Migrating /\ prev[Main] = "failed"
    /\ applied[Main] # <<>>
    /\ Len(run_log[Main]) = 1
    /\ Column("email_verified_at", "users") \in schema

(***************************************************************************)
(* The catalogue functions called alone: config.rs and schema/mod.rs       *)
(***************************************************************************)
MaxFeatures == 3
MaxBuilds == 3

\* The feature lists a caller can pass to get_migrations_for_features.
FeatureLists == UNION {[1..n -> Feature] : n \in 0..MaxFeatures}

InitCatalogue ==
    /\ InitSystem
    /\ url_db_type = "sqlite"
    /\ fn_available = <<>>
    /\ fn_applied = <<>>
    /\ fn_result = NotCalled

\* validate, enabled_features and the catalogue of the enabled features of one
\* configuration, in the dialect the configuration names when it names one.
CallEnabledFeatures ==
    \E cfg \in AuthKitConfig, db \in DatabaseType :
        /\ cfg.db_type \in DatabaseType => db = database_type(cfg)
        /\ fn_result' = [op |-> "enabled_features",
                         config |-> cfg,
                         db_type |-> db,
                         accepted |-> validate(cfg),
                         features |-> enabled_features(cfg),
                         out |-> get_migrations_for_features(enabled_features(cfg), db)]
        /\ UNCHANGED <<fn_available, fn_applied, systemVars>>

\* get_migrations_for_features on a feature list and a dialect.
CallBuild ==
    \E fs \in FeatureLists, db \in DatabaseType :
        /\ fn_result' = [op |-> "get_migrations_for_features",
                         features |-> fs,
                         db_type |-> db,
                         builds |-> <<get_migrations_for_features(fs, db)>>]
        /\ UNCHANGED <<fn_available, fn_applied, systemVars>>

\* get_migrations_for_features once more on the same feature list and dialect.
CallRebuild ==
    /\ fn_result.op = "get_migrations_for_features"
    /\ Len(fn_result.builds) < MaxBuilds
    /\ fn_result' =
          [fn_result EXCEPT !.builds =
              Append(@, get_migrations_for_features(fn_result.features,
                                                    fn_result.db_type))]
    /\ UNCHANGED <<fn_available, fn_applied, systemVars>>

NextCatalogue == CallEnabledFeatures \/ CallBuild \/ CallRebuild

SpecCatalogue == InitCatalogue /\ [][NextCatalogue]_vars

(***************************************************************************)
(* The statement splitter called alone on any text                         *)
(***************************************************************************)
MaxLen == 5

\* The texts a migration can hold, token by token.
SqlTokens == {SEMI, NL, CR, SP, DD, "w"}
SqlBlobs == UNION {[1..n -> SqlTokens] : n \in 0..MaxLen}

\* A text has been drawn and no function called on it yet.
InitSplit ==
    /\ InitSystem
    /\ url_db_type = "sqlite"
    /\ fn_available = <<>>
    /\ fn_applied = <<>>
    /\ fn_result \in {[op |-> "none", sql |-> sql, out |-> <<>>] : sql \in SqlBlobs}

\* The statements the loop of apply_migration sends for the text, when the
\* database accepts them all.
CallApplyStatements ==
    /\ fn_result' = [op |-> "apply_migration", sql |-> fn_result.sql,
                     out |-> Statements(fn_result.sql)]
    /\ UNCHANGED <<fn_available, fn_applied, systemVars>>

CallStripLeadingComments ==
    /\ fn_result' = [op |-> "strip_leading_comments", sql |-> fn_result.sql,
                     out |-> strip_leading_comments(fn_result.sql)]
    /\ UNCHANGED <<fn_available, fn_applied, systemVars>>

NextSplit == CallApplyStatements \/ CallStripLeadingComments

SpecSplit == InitSplit /\ [][NextSplit]_vars

(***************************************************************************)
(* Frame properties                                                        *)
(***************************************************************************)
\* C11: the tracking table changes only through apply (one row inserted) and
\* rollback (one row deleted).  ensure_migrations_table, the fetch of the applied
\* rows with get_pending_migrations or get_migration_status after it, the status
\* command and verify_checksums leave the rows as they are, and apply keeps every
\* row that exists as it is.
C11_TrackingTableFrame ==
    [][ /\ pc[Main] \in {"ensure", "fetch", "verify"} => rows' = rows
        /\ cmd[Main] = "status" => rows' = rows
        /\ pc[Main] \in {"apply", "record"} =>
              rows \subseteq rows' /\ Cardinality(rows' \ rows) <= 1
        /\ pc[Main] \in {"undo", "unrecord"} =>
              rows' \subseteq rows /\ Cardinality(rows \ rows') <= 1
        /\ rows' # rows => pc[Main] \in {"record", "unrecord"} ]_vars

\* The status command has reported on a table that holds a row, after a rollback.
C11_Witness ==
    /\ rollbacks > 0
    /\ cmd[Main] = "status" /\ pc[Main] = "done" /\ result[Main] = Ok
    /\ rows # {}
    /\ statuses[Main] # <<>>

\* C12: a dry-run migrate only lists the pending migrations: it sends no
\* statement of a migration and inserts no row, so the pending list computed
\* after it is the one it listed.
C12_DryRunOnlyLists ==
    (Migrating /\ dry_run[Main]) =>
        /\ run_log[Main] = <<>>
        /\ pc[Main] \notin {"apply", "record"}
        /\ (pc[Main] = "done" /\ result[Main] = Ok) => PendingNow = pending[Main]

\* A dry run listed two pending migrations.
C12_Witness ==
    /\ Migrating /\ dry_run[Main]
    /\ pc[Main] = "done" /\ result[Main] = Ok
    /\ Len(pending[Main]) = 2

\* The places of the catalogue whose version no applied row holds.
OpenPlaces == {i \in 1..Len(fn_available) : fn_available[i].version \notin InRows}

\* C13: get_pending_migrations returns exactly the catalogue entries whose
\* version is not in the applied set, each once and in catalogue order, and no
\* entry whose version is in the applied set.
C13_PendingExact ==
    fn_result.op = "get_pending_migrations" =>
        LET out == fn_result.out IN
        /\ Len(out) = Cardinality(OpenPlaces)
        /\ \A i \in OpenPlaces :
              out[Cardinality({j \in OpenPlaces : j <= i})] = fn_available[i]
        /\ \A k \in 1..Len(out) : out[k].version \notin InRows

\* Two entries are pending, in a catalogue that is not in version order, and an
\* entry between them is applied.
C13_Witness ==
    /\ fn_result.op = "get_pending_migrations"
    /\ Len(fn_result.out) = 2
    /\ fn_result.out[1].version > fn_result.out[2].version
    /\ InCatalogue \cap InRows # {}

\* C14: the list get_migration_status returns is sorted by version ascending,
\* whatever the order of the catalogue and of the applied rows, the Missing
\* entries among the Applied and Pending ones.
C14_StatusSorted ==
    fn_result.op = "get_migration_status" =>
        \A i \in 1..(Len(fn_result.out) - 1) :
            fn_result.out[i].version < fn_result.out[i + 1].version

\* A Missing entry stands between two entries of a catalogue that is not in
\* version order.
C14_Witness ==
    /\ fn_result.op = "get_migration_status"
    /\ \E i \in 1..(Len(fn_available) - 1) :
          fn_available[i].version > fn_available[i + 1].version
    /\ \E k \in 2..(Len(fn_result.out) - 1) :
          /\ fn_result.out[k].state = "Missing"
          /\ fn_result.out[k - 1].state # "Missing"
          /\ fn_result.out[k + 1].state # "Missing"

(***************************************************************************)
(* Catalogue properties                                                    *)
(***************************************************************************)
\* C15: for every configuration, the catalogue built from its enabled features
\* has unique versions that are strictly increasing in catalogue order.
C15_CatalogueAscending ==
    fn_result.op = "enabled_features" =>
        \A i, j \in 1..Len(fn_result.out) :
            i < j => fn_result.out[i].version < fn_result.out[j].version

\* A catalogue of two entries was built from a configuration.
C15_Witness ==
    /\ fn_result.op = "enabled_features"
    /\ Len(fn_result.out) = 2

\* C16: a configuration that validate accepts has email_password enabled;
\* enabled_features lists the base feature first and the enabled add-ons after
\* it in ascending version order; the catalogue is not empty and starts with
\* version 1.
C16_BaseFirst ==
    (fn_result.op = "enabled_features" /\ fn_result.accepted) =>
        LET fs == fn_result.features IN
        /\ fn_result.config.email_password
        /\ fs # <<>>
        /\ fs[1] = "EmailPassword"
        /\ \A i, j \in 1..Len(fs) : i < j => version(fs[i]) < version(fs[j])
        /\ \A i \in 2..Len(fs) : fs[i] # "EmailPassword"
        /\ fn_result.out # <<>>
        /\ fn_result.out[1].version = 1

\* validate accepted a configuration with the add-on enabled.
C16_Witness ==
    /\ fn_result.op = "enabled_features"
    /\ fn_result.accepted
    /\ fn_result.config.email_verification
    /\ Len(fn_result.features) = 2

RollingBack == cmd[Main] = "rollback_migration"
\* The places of the pieces of sql that hold an executable statement.
StatementPlaces(sql) == {i \in 1..Len(PiecesOf(sql)) : PiecesOf(sql)[i] # <<>>}
\* The k-th of them.
PlaceOf(sql, k) ==
    CHOOSE i \in StatementPlaces(sql) :
        Cardinality({j \in StatementPlaces(sql) : j <= i}) = k
\* What the status command would say of version v now.
StateNow(v) ==
    LET list == get_migration_status(get_migrations_from_config(config[Main]),
                                     get_applied_migrations(rows))
    IN  {list[i].state : i \in {j \in 1..Len(list) : list[j].version = v}}

\* C18: a rollback that succeeds has executed the statements of down_sql in
\* order and then deleted the tracking row of exactly that version, every other
\* row left as it was; afterwards the migration is Pending again.  The row that
\* apply inserts is the only row of its version, so apply and then rollback of
\* the same migration give back the set of rows.
C18_RollbackUndoesApply ==
    /\ [](RollingBack /\ pc[Main] = "done" /\ result[Main] = Ok =>
            LET m == Current(Main)
                log == run_log[Main]
                n == Cardinality(StatementPlaces(m.down_sql))
            IN  /\ Len(log) = n + 1
                /\ \A k \in 1..n : log[k] = Executed(m.version, PlaceOf(m.down_sql, k))
                /\ log[n + 1].what = "delete"
                /\ log[n + 1].version = m.version
                /\ m.version \notin RowVersions
                /\ StateNow(m.version) = {"Pending"})
    /\ [][(RollingBack /\ pc[Main] = "unrecord" /\ result'[Main] = Ok) =>
            /\ rows' = {row \in rows : row.version # Current(Main).version}
            /\ Cardinality(rows \ rows') <= 1]_vars
    /\ [][(Migrating /\ pc[Main] = "record" /\ rows' # rows) =>
            {row \in rows' : row.version # Current(Main).version} = rows]_vars

\* The rollback of an applied migration succeeded: it executed statements,
\* deleted the row of its version and left another row in the table.
C18_Witness ==
    /\ RollingBack /\ pc[Main] = "done" /\ result[Main] = Ok
    /\ Len(run_log[Main]) >= 2
    /\ run_log[Main][Len(run_log[Main])].affected = 1
    /\ rows # {}

(***************************************************************************)
(* Feature drift                                                           *)
(***************************************************************************)
\* C19: with the rows of the base and of the add-on migration in the table, the
\* status command under a configuration with the base feature only reports the
\* base version as Applied and one Missing entry, the add-on version, and
\* nothing is pending; no command removes the row of a feature that was
\* disabled.
C19_FeatureDrift ==
    /\ [](cmd[Main] = "status" /\ pc[Main] = "done" /\ result[Main] = Ok
          /\ ~config[Main].email_verification /\ RowVersions = {1, 2} =>
            LET list == statuses[Main] IN
            /\ Len(list) = 2
            /\ list[1].version = 1 /\ list[1].state = "Applied"
            /\ list[2].version = 2 /\ list[2].state = "Missing"
            /\ list[2].name = migration_name("EmailVerification")
            /\ PendingNow = <<>>
            /\ get_pending_migrations(get_migrations_from_config(config[Main]),
                                      applied[Main]) = <<>>
            /\ Range(applied[Main]) = rows)
    /\ [][rows \subseteq rows']_vars

\* The status command reported a Missing entry under a configuration without
\* the add-on.
C19_Witness ==
    /\ cmd[Main] = "status" /\ pc[Main] = "done" /\ result[Main] = Ok
    /\ ~config[Main].email_verification
    /\ RowVersions = {1, 2}
    /\ Len(statuses[Main]) = 2
    /\ statuses[Main][2].state = "Missing"

(***************************************************************************)
(* ensure_migrations_table                                                 *)
(***************************************************************************)
\* C20: ensure_migrations_table is idempotent: on a database that has the
\* tracking table it can succeed, and when it succeeds it leaves the schema and
\* the rows as they are; whenever it succeeds the table exists, with the rows
\* there were, and nothing else of the schema has changed.
C20_EnsureIdempotent ==
    /\ [](pc[Main] = "ensure" /\ MIGRATIONS_TABLE \in schema =>
            ENABLED (EnsureMigrationsTable(Main) /\ pc'[Main] = "fetch"))
    /\ [][(pc[Main] = "ensure" /\ MIGRATIONS_TABLE \in schema) =>
            schema' = schema /\ rows' = rows]_vars
    /\ [][(pc[Main] = "ensure" /\ pc'[Main] = "fetch") =>
            /\ schema' = schema \cup {MIGRATIONS_TABLE}
            /\ rows' = rows]_vars

\* ensure_migrations_table has succeeded on a table that holds rows.
C20_Witness ==
    /\ pc[Main] = "fetch"
    /\ last[Main].kind = "migrated"
    /\ rows # {}
    /\ MIGRATIONS_TABLE \in schema

(***************************************************************************)
(* Statement splitter                                                      *)
(***************************************************************************)
\* The places of sql where a fragment ends or begins: before the text, at every
\* terminator, after the text.
Cuts(sql) == {0, Len(sql) + 1} \cup {i \in 1..Len(sql) : sql[i] = SEMI}
\* The fragments, each as the pair of the cuts around it.
Fragments(sql) ==
    {f \in Cuts(sql) \X Cuts(sql) :
        f[1] < f[2] /\ \A c \in Cuts(sql) : ~(f[1] < c /\ c < f[2])}
\* The tokens of code between two places a and b of sql: neither whitespace nor
\* the comment marker, with no comment marker before them on their line.
CodeIn(sql, a, b) ==
    {i \in (a + 1)..(b - 1) :
        /\ sql[i] \notin Whitespace \cup {DD}
        /\ \A j \in (a + 1)..(i - 1) :
              sql[j] = DD => \E k \in (j + 1)..(i - 1) : sql[k] = NL}
Least(S) == CHOOSE i \in S : \A j \in S : i <= j
\* The place of the last token between a and b that is not whitespace.
LastSolid(sql, a, b) ==
    CHOOSE i \in (a + 1)..(b - 1) :
        sql[i] \notin Whitespace /\ \A j \in (i + 1)..(b - 1) : sql[j] \in Whitespace
\* text with every "\r\n" written "\n".
RECURSIVE Unix(_)
Unix(text) ==
    IF text = <<>> THEN <<>>
    ELSE IF Len(text) >= 2 /\ text[1] = CR /\ text[2] = NL THEN Unix(Tail(text))
    ELSE <<text[1]>> \o Unix(Tail(text))
\* The text between a and b from its first line of code on, its ends trimmed.
FromCode(sql, a, b) == SubSeq(sql, Least(CodeIn(sql, a, b)), LastSolid(sql, a, b))
\* The fragments that hold code, and how many of them begin before place a.
WithCode(sql) == {f \in Fragments(sql) : CodeIn(sql, f[1], f[2]) # {}}
RankOf(sql, f) == Cardinality({g \in WithCode(sql) : g[1] <= f[1]})

\* C21: the statements apply sends for a text are, in the order of the text, the
\* fragments between the terminators, trimmed and without their leading comment
\* and blank lines, the fragments that hold nothing else dropped; no statement
\* sent is empty or begins with whitespace or with a comment.
C21_SplitExact ==
    fn_result.op = "apply_migration" =>
        LET sql == fn_result.sql
            out == fn_result.out
        IN  /\ Len(out) = Cardinality(WithCode(sql))
            /\ \A f \in WithCode(sql) :
                  out[RankOf(sql, f)] = Unix(FromCode(sql, f[1], f[2]))
            /\ \A k \in 1..Len(out) :
                  out[k] # <<>> /\ out[k][1] \notin Whitespace \cup {DD}

\* Two statements were sent for a text whose first fragment begins with a
\* comment line.
C21_Witness ==
    /\ fn_result.op = "apply_migration"
    /\ Len(fn_result.out) = 2
    /\ Len(fn_result.sql) = MaxLen
    /\ fn_result.sql[1] = DD

\* C22 as stated: strip_leading_comments returns the text from the first line
\* that is neither blank nor a comment on, unchanged apart from the trimming of
\* its ends (so what follows the first line of code is kept, and a trimmed text
\* that begins with code is returned as it is), and the empty text when no such
\* line exists.
C22_StripUnchanged ==
    fn_result.op = "strip_leading_comments" =>
        LET sql == fn_result.sql IN
        fn_result.out =
            IF CodeIn(sql, 0, Len(sql) + 1) = {} THEN <<>>
            ELSE FromCode(sql, 0, Len(sql) + 1)

\* C22: the same, up to the line breaks: strip_leading_comments returns the
\* text from the first line that is neither blank nor a comment on, its ends
\* trimmed and every "\r\n" in it written "\n"; the comment lines and the
\* trailing comments after the first line of code are kept; a text made of
\* comments and blank lines only gives the empty text.
C22_StripLeading ==
    fn_result.op = "strip_leading_comments" =>
        LET sql == fn_result.sql IN
        fn_result.out =
            IF CodeIn(sql, 0, Len(sql) + 1) = {} THEN <<>>
            ELSE Unix(FromCode(sql, 0, Len(sql) + 1))

\* A leading comment line was stripped and a comment after the first line of
\* code was kept.
C22_Witness ==
    /\ fn_result.op = "strip_leading_comments"
    /\ fn_result.out # <<>>
    /\ fn_result.sql[1] = DD
    /\ fn_result.out[1] = "w"
    /\ fn_result.out[Len(fn_result.out)] = DD

\* Every line of sql that is not blank is a full-line comment.
OnlyComments(sql) == \A line \in Range(Lines(sql)) : IsBlankOrComment(line)

\* C23: for a text in which every line that is not blank is a full-line
\* comment, whatever the comments hold, apply sends no statement.
C23_CommentsNotExecuted ==
    (fn_result.op = "apply_migration" /\ OnlyComments(fn_result.sql)) =>
        fn_result.out = <<>>

(***************************************************************************)
(* generate                                                                *)
(***************************************************************************)
Generating == cmd[Main] = "generate"
WritesOf(log, v) == SelectSeq(log, LAMBDA e : e.what = "write" /\ e.version = v)

\* C24: without --force, generate fails with FileExists as soon as the up or the
\* down file of a migration exists, writes neither file of that migration and
\* modifies no file that exists; with --force it never fails with FileExists,
\* and when it succeeds every file of the catalogue holds the text of its
\* migration.
C24_GenerateRefuses ==
    /\ [](Generating /\ result[Main].kind = "FileExists" =>
            LET m == Current(Main) IN
            /\ ~force[Main]
            /\ result[Main].path \in {up_path(m), down_path(m)}
            /\ files[result[Main].path] # None
            /\ WritesOf(run_log[Main], m.version) = <<>>)
    /\ [](Generating /\ force[Main] /\ pc[Main] = "done" /\ result[Main] = Ok =>
            \A i \in 1..Len(pending[Main]) :
                LET m == pending[Main][i] IN
                /\ files[up_path(m)] = Some(m.up_sql)
                /\ files[down_path(m)] = Some(m.down_sql))
    /\ [][(Generating /\ ~force[Main]) =>
            \A path \in Paths : files[path] # None => files'[path] = files[path]]_vars
    /\ [][(Generating /\ pc[Main] = "check" /\ ~force[Main]
           /\ (files[up_path(Current(Main))] # None
               \/ files[down_path(Current(Main))] # None)) =>
            /\ result'[Main].kind \in {"FileExists", "Interrupted"}
            /\ files' = files]_vars

\* Without --force, generate wrote the files of the first migration and refused
\* at the second, whose down file exists and whose up file does not.
C24_Witness ==
    /\ Generating /\ pc[Main] = "done" /\ ~force[Main]
    /\ result[Main].kind = "FileExists"
    /\ mi[Main] = 2
    /\ result[Main].path = down_path(Current(Main))
    /\ files[up_path(Current(Main))] = None
    /\ run_log[Main] # <<>>

(***************************************************************************)
(* destroy                                                                 *)
(***************************************************************************)
Destroying == cmd[Main] = "destroy"
DropsOf(log) == SelectSeq(log, LAMBDA e : e.what = "drop")
\* The tables the migrations of the catalogue create, and the tracking table.
CatalogueTables ==
    {Table("users"), Table("accounts"), Table("sessions"), Table("verification"),
     MIGRATIONS_TABLE}
\* destroy has dropped the tracking table in this run, and the table held rows.
TrackingDropped ==
    \E k \in 1..Len(run_log[Main]) :
        /\ run_log[Main][k].what = "drop"
        /\ run_log[Main][k].table = MIGRATIONS_TABLE.name
        /\ run_log[Main][k].rows > 0

\* C25: after destroy has completed with success on a database to which
\* migrations were applied, none of the tables the migrations create (users,
\* accounts, sessions, verification) and not the tracking table exists.
C25_DestroyDropsAll ==
    (Destroying /\ pc[Main] = "done" /\ result[Main] = Ok /\ TrackingDropped) =>
        CatalogueTables \cap schema = {}

\* C26: after a forced destroy that succeeded the tracking table is gone; the
\* status command that follows creates it empty and reports every migration of
\* the catalogue as Pending, and the migrate that follows has every migration
\* of the catalogue in its queue and, when it succeeds, has applied them all.
C26_DestroyThenAgain ==
    /\ (Destroying /\ force[Main] /\ pc[Main] = "done" /\ result[Main] = Ok) =>
          MIGRATIONS_TABLE \notin schema /\ rows = {}
    /\ (cmd[Main] = "status" /\ prev[Main] = "destroyed"
        /\ pc[Main] = "done" /\ result[Main] = Ok) =>
          /\ Len(statuses[Main]) = Len(get_migrations_from_config(config[Main]))
          /\ \A i \in 1..Len(statuses[Main]) : statuses[Main][i].state = "Pending"
          /\ rows = {}
    /\ (Migrating /\ ~dry_run[Main] /\ prev[Main] = "reported" /\ Planned) =>
          /\ pending[Main] = get_migrations_from_config(config[Main])
          /\ (pc[Main] = "done" /\ result[Main] = Ok) =>
                /\ RowVersions = Versions(pending[Main])
                /\ Versions(InsertsOf(run_log[Main])) = Versions(pending[Main])

\* migrate, forced destroy, status, and a migrate that applied two migrations
\* again.
C26_Witness ==
    /\ Migrating /\ prev[Main] = "reported"
    /\ pc[Main] = "done" /\ result[Main] = Ok
    /\ Len(InsertsOf(run_log[Main])) = 2

\* The user has answered no to the confirmation of this run.
Declined ==
    \E k \in 1..Len(run_log[Main]) : run_log[Main][k] = Prompted("no")

\* C27: a destroy that the user declines drops no table, leaves the tables and
\* the tracking rows as they are and returns success.
C27_DeclinedIsNoOp ==
    /\ [](Destroying /\ Declined =>
            /\ ~force[Main]
            /\ pc[Main] = "done" /\ result[Main] = Ok
            /\ DropsOf(run_log[Main]) = <<>>
            /\ \A i \in 1..Len(to_drop[Main]) : Table(to_drop[Main][i]) \in schema)
    /\ [][(Destroying /\ pc[Main] \in {"scan", "confirm"}) =>
            schema' = schema /\ rows' = rows]_vars

\* The user declined the destroy of a database with tracking rows.
C27_Witness ==
    /\ Destroying /\ Declined
    /\ pc[Main] = "done"
    /\ rows # {}

\* None of the tables destroy knows of exists.
NothingToDestroy == \A i \in 1..Len(AUTHKIT_TABLES) : Table(AUTHKIT_TABLES[i]) \notin schema

\* C28: on a database in which none of the known tables exists, destroy can
\* return success, and it returns without a DROP statement and without the
\* confirmation prompt.
C28_NothingToDestroy ==
    /\ [](Destroying /\ pc[Main] = "scan" /\ NothingToDestroy =>
            ENABLED (DestroyScan(Main) /\ result'[Main] = Ok))
    /\ [][(Destroying /\ pc[Main] = "scan" /\ NothingToDestroy) =>
            /\ pc'[Main] = "done"
            /\ result'[Main].kind \in {"Ok", "Database", "Interrupted"}
            /\ run_log'[Main] = <<>>
            /\ schema' = schema /\ rows' = rows]_vars

\* destroy without --force returned success with nothing to drop and without
\* having prompted.
C28_Witness ==
    /\ Destroying /\ ~force[Main]
    /\ pc[Main] = "done" /\ result[Main] = Ok
    /\ to_drop[Main] = <<>>
    /\ run_log[Main] = <<>>


(***************************************************************************)
(* status                                                                  *)
(***************************************************************************)
\* status has returned success and has printed its summary.
Reported == cmd[Main] = "status" /\ pc[Main] = "done" /\ result[Main] = Ok
\* The list status printed holds an entry classified as state.
Classified(state) ==
    \E i \in 1..Len(statuses[Main]) : statuses[Main][i].state = state
\* The summary holds the line about pending migrations.
ReportsPending ==
    \E k \in 1..Len(printed[Main]) : printed[Main][k].text = PendingLine(0).text

\* C29 as stated: status reports the database as up to date exactly when its
\* list holds no Pending and no Missing entry; it reports pending migrations
\* when no migration was applied, and up to date when it follows a migrate that
\* succeeded with the same configuration.
C29_UpToDateAfterMigrate ==
    Reported =>
        /\ printed[Main] = <<UP_TO_DATE>>
              <=> (~Classified("Pending") /\ ~Classified("Missing"))
        /\ rows = {} => ReportsPending
        /\ prev[Main] = "repeat" => printed[Main] = <<UP_TO_DATE>>

\* C29: status reports the database as up to date exactly when its list holds
\* no Pending and no Missing entry; it reports pending migrations when no
\* migration was applied, and up to date when it follows a migrate that
\* succeeded with the same configuration on a database whose rows all belong
\* to migrations of that configuration.
C29_StatusSummary ==
    Reported =>
        /\ printed[Main] = <<UP_TO_DATE>>
              <=> (~Classified("Pending") /\ ~Classified("Missing"))
        /\ UP_TO_DATE \in {printed[Main][k] : k \in 1..Len(printed[Main])}
              => printed[Main] = <<UP_TO_DATE>>
        /\ rows = {} => ReportsPending
        /\ (prev[Main] = "repeat"
            /\ RowVersions \subseteq Versions(get_migrations_from_config(config[Main])))
              => printed[Main] = <<UP_TO_DATE>>

\* status after a migrate that succeeded with the same configuration, of two
\* migrations, has reported the database as up to date.
C29_Witness ==
    /\ Reported /\ prev[Main] = "repeat"
    /\ Len(statuses[Main]) = 2
    /\ printed[Main] = <<UP_TO_DATE>>


(***************************************************************************)
(* Two processes                                                           *)
(***************************************************************************)
\* The process has fetched the applied rows and computed its queue.
PlannedBy(r) ==
    /\ cmd[r] = "migrate" /\ ~dry_run[r]
    /\ pc[r] \in {"apply", "record"} \/ (pc[r] = "done" /\ mi[r] >= 1)
\* The versions of the migrations of which the process executed a statement.
ExecutedVersions(r) ==
    {run_log[r][k].version :
        k \in {n \in 1..Len(run_log[r]) : run_log[r][n].what = "execute"}}

\* C30: no process waits for another.  Whatever the other process is doing, a
\* process that is about to fetch can fetch and a process that is about to
\* insert its row can try to; what a process reads and plans is decided by the
\* rows of the tracking table at that moment alone; and two processes that
\* read the same rows with the same configuration hold the same queue.
C30_NoLocking ==
    /\ [](\A r \in Runners :
            /\ (pc[r] = "fetch" /\ cmd[r] = "migrate") => ENABLED FetchAndPlan(r)
            /\ pc[r] = "record" => ENABLED RecordMigration(r))
    /\ [][\A r \in Runners :
            (pc[r] = "fetch" /\ pc'[r] \in {"apply", "record"}) =>
                /\ applied'[r] = get_applied_migrations(rows)
                /\ pending'[r] =
                      get_pending_migrations(get_migrations_from_config(config[r]),
                                             applied'[r])]_vars
    /\ [](\A r, o \in Runners :
            (PlannedBy(r) /\ PlannedBy(o) /\ config[r] = config[o]
             /\ applied[r] = applied[o]) => pending[r] = pending[o])

\* Both processes read the same rows, hold the same queue of two migrations,
\* and both have executed statements of the first migration of that queue while
\* neither has finished.
C30_Witness ==
    /\ PlannedBy("r1") /\ PlannedBy("r2")
    /\ pc["r1"] # "done" /\ pc["r2"] # "done"
    /\ applied["r1"] = applied["r2"]
    /\ pending["r1"] = pending["r2"]
    /\ Len(pending["r1"]) = 2
    /\ pending["r1"][1].version \in ExecutedVersions("r1") \cap ExecutedVersions("r2")


(***************************************************************************)
(* One migration at a time                                                 *)
(***************************************************************************)
\* The migration of the queue of the run that has version v.
Queued(v) ==
    LET k == CHOOSE k \in 1..Len(pending[Main]) : pending[Main][k].version = v
    IN  pending[Main][k]

\* C31: within one run no two migrations are in flight together.  Whenever the
\* run sends a statement of a migration after an entry of another migration,
\* the other migration is complete: every executable statement of its up_sql
\* was executed and its row was inserted, all before.  The statements of one
\* migration are sent one at a time in their order in up_sql: each is the
\* executable statement that follows the one sent before it.
C31_OneAtATime ==
    Migrating =>
        LET log == run_log[Main] IN
        /\ \A l \in 2..Len(log) :
              (log[l].what # "insert" /\ log[l - 1].version # log[l].version) =>
                 LET v == log[l - 1].version
                     done == ExecutedFor(SubSeq(log, 1, l - 1), v)
                     plan == PiecesOf(Queued(v).up_sql)
                 IN  /\ log[l - 1] = Inserted(v)
                     /\ {done[k].piece : k \in 1..Len(done)}
                           = {i \in 1..Len(plan) : plan[i] # <<>>}
                     /\ \A k \in 1..(l - 1) : log[k].version # log[l].version
        /\ \A l \in 1..Len(log) :
              log[l].what # "insert" =>
                 LET sql == Queued(log[l].version).up_sql
                 IN  log[l].piece =
                        NextStatement(sql,
                            IF l > 1 /\ log[l - 1].version = log[l].version
                            THEN log[l - 1].piece ELSE 0)
        /\ \A l \in 1..Len(log) :
              log[l].what = "insert" =>
                 /\ l > 1 => log[l - 1].version = log[l].version
                 /\ \A k \in 1..(l - 1) : log[k] # log[l]

\* The run has executed the statements of its first migration, inserted its
\* row, and executed two statements of the second.
C31_Witness ==
    /\ Migrating /\ mi[Main] = 2
    /\ Len(InsertsOf(run_log[Main])) = 1
    /\ Len(ExecutedFor(run_log[Main], Current(Main).version)) = 2


(***************************************************************************)
(* The order in which destroy drops                                        *)
(***************************************************************************)
\* C32: destroy drops the tables in reverse dependency order: in the step in
\* which it drops a table, no table that is present in the database holds a
\* foreign key that references the table dropped.
C32_ReverseDependencyOrder ==
    [][(Destroying /\ pc[Main] = "drop"
        /\ Len(DropsOf(run_log'[Main])) > Len(DropsOf(run_log[Main]))) =>
            ReferencesTo(to_drop[Main][si[Main] + 1], schema) = {}]_vars


(***************************************************************************)
(* A rollback that fails                                                   *)
(***************************************************************************)
\* C33: when a statement of down_sql fails, rollback_migration stops there: it
\* has executed the statements before it in order and none after it, returns
\* the migration error that names the migration, and has deleted no tracking
\* row; a migration whose row is in the table is still classified Applied, and
\* the effects of the down statements executed before the failure remain.
C33_RollbackStopsAtFailure ==
    /\ [](RollingBack /\ pc[Main] = "done" /\ result[Main].kind = "Migration" =>
            LET m == Current(Main)
                log == run_log[Main]
                n == Len(log)
            IN  /\ result[Main] = MigrationError(m.name)
                /\ n >= 1
                /\ log[n] = Refused(m.version, PlaceOf(m.down_sql, n))
                /\ \A k \in 1..(n - 1) :
                      /\ log[k] = Executed(m.version, PlaceOf(m.down_sql, k))
                      /\ StatementHolds(StatementAt(m.down_sql, log[k].piece))
                /\ m.version \in RowVersions => StateNow(m.version) = {"Applied"})
    /\ [][(RollingBack /\ pc[Main] = "undo") => rows' = rows]_vars
    /\ [][(RollingBack /\ pc[Main] = "done" /\ result[Main].kind = "Migration") =>
            /\ pc'[Main] = "idle"
            /\ schema' = schema /\ rows' = rows]_vars

\* The rollback of an applied migration failed in its second statement or
\* later: statements before it were executed and the row is still in the table.
C33_Witness ==
    /\ RollingBack /\ pc[Main] = "done" /\ result[Main].kind = "Migration"
    /\ Len(run_log[Main]) >= 2
    /\ Current(Main).version \in RowVersions
    /\ NextStatement(Current(Main).down_sql, si[Main]) # 0


(***************************************************************************)
(* The race for a version                                                  *)
(***************************************************************************)
\* The process has taken a step of record_migration.
Recorded(r) == pc[r] = "record" /\ (pc'[r] # pc[r] \/ mi'[r] # mi[r])
\* The executable statements of the migration in hand were all executed by r.
ExecutedAll(r) ==
    LET done == ExecutedFor(run_log[r], Current(r).version)
    IN  {done[k].piece : k \in 1..Len(done)} = StatementPlaces(Current(r).up_sql)

\* C34: with processes that apply migrations to the same database at the same
\* time, the tracking table never holds two rows of one version and rows are
\* never removed; an insert succeeds only for a version that has no row, so
\* for each version at most one apply call returns success; an apply that finds
\* the row of its version inserted by another process returns a database error,
\* changes no row, and has by then executed every statement of the migration.
C34_OneRowPerVersion ==
    /\ [](\A a, b \in rows : a.version = b.version => a = b)
    /\ [][rows \subseteq rows']_vars
    /\ [][\A r \in Runners :
            Recorded(r) =>
                LET v == Current(r).version IN
                /\ ExecutedAll(r)
                /\ IF v \in RowVersions
                   THEN /\ rows' = rows
                        /\ pc'[r] = "done" /\ result'[r] = DatabaseError
                   ELSE \/ /\ rows' = rows
                           /\ pc'[r] = "done" /\ result'[r] = DatabaseError
                        \/ /\ rows' \ rows = {rw \in rows' : rw.version = v}
                           /\ Cardinality(rows' \ rows) = 1
                           /\ result'[r].kind \in {"None", "Ok"}]_vars
    /\ [](\A r \in Runners :
            (cmd[r] = "migrate" /\ pc[r] = "done" /\ mi[r] >= 1
             /\ result[r] = DatabaseError) => ExecutedAll(r))

\* Both processes executed every statement of the same migration; one inserted
\* the row, the other returned a database error.
C34_Witness ==
    \E r, o \in Runners :
        /\ r # o
        /\ cmd[r] = "migrate" /\ pc[r] = "done" /\ mi[r] >= 1
        /\ result[r] = DatabaseError
        /\ ExecutedAll(r)
        /\ cmd[o] = "migrate"
        /\ \E k \in 1..Len(run_log[o]) : run_log[o][k] = Inserted(Current(r).version)
        /\ Current(r).version \in RowVersions


(***************************************************************************)
(* An insert that fails                                                    *)
(***************************************************************************)
\* The list the status command would give for the configuration of r.
Classification(r, table) ==
    LET list == get_migration_status(get_migrations_from_config(config[r]),
                                     get_applied_migrations(table))
    IN  {<<list[i].version, list[i].state>> : i \in 1..Len(list)}
\* What the statements r executed for the migration in hand created exists.
EffectsRemain(r, objects) ==
    LET m == Current(r)
        done == ExecutedFor(run_log[r], m.version)
    IN  \A k \in 1..Len(done) :
            \E st \in SqlStatements :
                /\ st.head = StatementAt(m.up_sql, done[k].piece)[1]
                /\ st.obj \in objects

\* C35: when every statement of a migration has succeeded and the insert of
\* its row fails, for want of a connection or because the table holds a row of
\* that version, apply returns the database error; no row is added and no row
\* is changed, what the statements created stays in the database, and every
\* version is classified as before the call.
C35_InsertFails ==
    /\ [][\A r \in Runners :
            (Recorded(r) /\ InsertsOf(run_log'[r]) = InsertsOf(run_log[r])) =>
                /\ pc'[r] = "done" /\ result'[r] = DatabaseError
                /\ rows' = rows
                /\ ExecutedAll(r)
                /\ EffectsRemain(r, schema) /\ EffectsRemain(r, schema')
                /\ Classification(r, rows') = Classification(r, rows)]_vars
    /\ [][\A r \in Runners :
            (Recorded(r) /\ Current(r).version \in RowVersions) =>
                InsertsOf(run_log'[r]) = InsertsOf(run_log[r])]_vars

\* The insert failed on the row another process had inserted for the version:
\* the row in the table is not the one this process would have written.
C35_Witness ==
    \E r \in Runners :
        /\ cmd[r] = "migrate" /\ pc[r] = "done" /\ mi[r] >= 1
        /\ result[r] = DatabaseError
        /\ ExecutedAll(r) /\ EffectsRemain(r, schema)
        /\ \E row \in rows : /\ row.version = Current(r).version
                               /\ row.applied_at < clock


(***************************************************************************)
(* Rows and catalogue under one configuration                              *)
(***************************************************************************)
\* The row records the name and the checksum that the catalogue has for its
\* version.
AgreesWith(row, catalogue) ==
    \E k \in 1..Len(catalogue) :
        /\ catalogue[k].version = row.version
        /\ catalogue[k].name = row.name
        /\ catalogue[k].checksum = row.checksum

\* C36: when every command runs with the same configuration, then whatever
\* the sequence of apply, failed apply, rollback and re-run, each tracking row
\* records the name and the checksum the catalogue has for its version, and
\* verify_checksums with that configuration never reports a mismatch: it
\* returns success unless the database cannot be read or the process is killed.
C36_RowsAgreeWithCatalogue ==
    /\ \A row \in rows : AgreesWith(row, get_migrations_from_config(FixedConfig))
    /\ VerifyLoop(get_migrations_from_config(FixedConfig),
                  get_applied_migrations(rows)) = Ok
    /\ (cmd[Main] = "verify_checksums" /\ pc[Main] = "done") =>
          result[Main].kind \in {"Ok", "Database", "Interrupted"}

\* After a rollback, a migrate run that followed a failed one has inserted a
\* row next to a row of an earlier run.
C36_Witness ==
    /\ Migrating /\ pc[Main] = "done" /\ result[Main] = Ok
    /\ rollbacks > 0 /\ prev[Main] = "failed"
    /\ Len(InsertsOf(run_log[Main])) = 1
    /\ Cardinality(rows) = 2


(***************************************************************************)
(* Classification by version alone                                         *)
(***************************************************************************)
\* The rows that have the version of row a and any of two names, two
\* timestamps and two checksums.
AltRows(a) ==
    {[version |-> a.version, name |-> n, applied_at |-> t, checksum |-> c] :
        n \in {a.name, "renamed"},
        t \in {a.applied_at, a.applied_at + 1},
        c \in {a.checksum, <<"d", "r", "i", "f", "t">>}}
\* The applied lists with the versions of applied, in its order.
Variants(applied_list) ==
    {alt \in [1..Len(applied_list) -> UNION {AltRows(applied_list[i]) :
                                               i \in 1..Len(applied_list)}] :
        \A i \in 1..Len(applied_list) : alt[i] \in AltRows(applied_list[i])}
\* The version and the state of each entry of a list of get_migration_status.
StatesOf(list) == {<<list[i].version, list[i].state>> : i \in 1..Len(list)}
\* The rows the run fetched whose checksum is not the one of the catalogue of
\* the run.
DriftedRows ==
    LET catalogue == get_migrations_from_config(config[Main])
    IN  {i \in 1..Len(applied[Main]) :
            \E k \in 1..Len(catalogue) :
                /\ catalogue[k].version = applied[Main][i].version
                /\ catalogue[k].checksum # applied[Main][i].checksum}

\* C37: the classification reads the versions only.  The queue migrate computes
\* and the states status prints are those it would compute from any applied
\* list with the same versions and other names, timestamps or checksums.  So a
\* migration whose row is in the table is not in the queue and no statement of
\* it is sent, whatever its recorded checksum, and migrate goes on with the
\* queue and never returns a checksum mismatch.
C37_VersionsOnly ==
    /\ [][(Migrating /\ pc[Main] = "fetch" /\ result'[Main].kind \in {"None", "Ok"}) =>
            \A alt \in Variants(applied'[Main]) :
                get_pending_migrations(get_migrations_from_config(config[Main]), alt)
                    = pending'[Main]]_vars
    /\ [][(cmd[Main] = "status" /\ pc[Main] = "fetch" /\ result'[Main] = Ok) =>
            \A alt \in Variants(applied'[Main]) :
                StatesOf(get_migration_status(
                             get_migrations_from_config(config[Main]), alt))
                    = StatesOf(statuses'[Main])]_vars
    /\ [](Migrating /\ Planned =>
            /\ \A i \in 1..Len(applied[Main]) :
                  /\ applied[Main][i].version \notin Versions(pending[Main])
                  /\ \A k \in 1..Len(run_log[Main]) :
                        run_log[Main][k].version # applied[Main][i].version
            /\ result[Main].kind # "ChecksumMismatch")

\* The run found a row whose checksum is not the one of its catalogue, and
\* has applied the migration that was pending.
C37_Witness ==
    /\ Migrating /\ pc[Main] = "done" /\ result[Main] = Ok
    /\ DriftedRows # {}
    /\ InsertsOf(run_log[Main]) # <<>>


(***************************************************************************)
(* The dialect of the catalogue and the dialect of the database            *)
(***************************************************************************)
\* C38: migrate never applies the catalogue of one dialect to a database of
\* the other: whenever the migrate command has executed a statement of a
\* migration, the database type of the configuration the catalogue was built
\* from is the database type detected from the URL of the connection.
C38_SameDialect ==
    (cmd[Main] = "migrate"
     /\ \E k \in 1..Len(run_log[Main]) : run_log[Main][k].what = "execute") =>
        database_type(config[Main]) = url_db_type


(***************************************************************************)
(* Retry after a partial application                                       *)
(***************************************************************************)
\* The statement the run is about to send, and the database's answer to it.
NextAnswer ==
    LET m == Current(Main)
    IN  Execute(schema, url_db_type,
                StatementAt(m.up_sql, NextStatement(m.up_sql, si[Main])))
\* The run follows one that failed or was interrupted and is in a migration
\* part of whose statements took effect before.
Retrying ==
    /\ Migrating /\ pc[Main] = "apply" /\ prev[Main] = "failed"
    /\ \E k \in StatementPlaces(Current(Main).up_sql) :
          StatementHolds(StatementAt(Current(Main).up_sql, k))

\* C39 as stated: every migration of the catalogue can be retried after a
\* partial application: in a run that retries a migration after some of its
\* statements took effect, the database accepts every statement of it.
C39_EveryMigrationRetries ==
    Retrying => NextAnswer.ok

\* C39: a migration is retried from the top of its statement list.  The
\* database accepts every statement of the retry for the migrations of the
\* PostgreSQL catalogue and for the base migration of the SQLite catalogue,
\* whose statements all carry IF NOT EXISTS.  The retry of the SQLite
\* email_verification migration fails at an ADD COLUMN whose column exists.
C39_GuardedMigrationsRetry ==
    /\ (Retrying /\ Current(Main).up_sql # EV_SQLITE_UP) => NextAnswer.ok
    /\ (Migrating /\ pc[Main] = "apply" /\ Current(Main).up_sql = EV_SQLITE_UP
        /\ si[Main] = 0 /\ Column("email_verified", "users") \in schema)
          => ~NextAnswer.ok
    /\ (Migrating /\ pc[Main] = "apply" /\ prev[Main] = "failed" /\ run_log[Main] = <<>>)
          => /\ si[Main] = 0
             /\ Current(Main).version \notin RowVersions

\* A run that follows a failed one is about to send the first statement of a
\* migration whose first object exists already, and the statement is guarded.
C39_Witness ==
    /\ Retrying /\ si[Main] = 0 /\ run_log[Main] = <<>>
    /\ Current(Main).up_sql # EV_SQLITE_UP
    /\ StatementHolds(StatementAt(Current(Main).up_sql,
                                  NextStatement(Current(Main).up_sql, 0)))

=============================================================================
